---- MODULE Spec2Model ----
(***************************************************************************)
(* Thirsty-Lang front end: FlowDocument -> validate_and_normalize ->       *)
(* IRFlow -> _topological_order -> ir_to_monolith_tasks /                  *)
(* ir_to_waterfall_spec.                                                   *)
(*                                                                         *)
(* Strings are modelled by TLA+ strings.  Python dicts are functions whose *)
(* domain is the key set; Python's None is the value None.  Task names are *)
(* single letters, so Python's string order on them is alphabet order.     *)
(***************************************************************************)
EXTENDS Integers, Sequences, FiniteSets, TLC

VARIABLES raw, doc, pc, idx, seen_names, ir_tasks, ir_edges, error, graph, visiting, visited, stack, flow, in_degree, adj, queue, order, node, nxts, caller, calls, artifactA, artifactB, returns

vars == <<raw, doc, pc, idx, seen_names, ir_tasks, ir_edges, error, graph, visiting, visited, stack, flow, in_degree, adj, queue, order, node, nxts, caller, calls, artifactA, artifactB, returns>>

valVars == <<idx, seen_names, ir_tasks, ir_edges, error>>

dfsVars == <<graph, visiting, visited, stack>>

topoVars == <<in_degree, adj, queue, order, node, nxts>>

outVars == <<caller, calls, artifactA, artifactB, returns>>

----------------------------------------------------------------------------
(* Bounds of the model.                                                    *)

\* longest task list of a graph document
MaxTasks == 3

\* longest edge list of a graph document
MaxEdges == 2

\* longest task list of a document with faulty fields
MaxFieldTasks == 3

\* number of projection calls made on one IRFlow
MaxCalls == 2

\* longest edge list of an IRFlow built without the validator
MaxDirectEdges == 2

----------------------------------------------------------------------------
(* Values.                                                                 *)

None == "<None>"

EmptyDict == << >>

\* the characters str.strip() removes make up the whole of these strings
Whitespace == {"", " "}

Strip(s) == IF s \in Whitespace THEN "" ELSE s

Alphabet == <<"a", "b", "c", "d">>

Names == {"a", "b", "c"}

AllNames == {Alphabet[k] : k \in DOMAIN Alphabet}

Rank(s) == CHOOSE k \in DOMAIN Alphabet : Alphabet[k] = s

\* Python's < on the task names of the model
StrLess(x, y) == Rank(x) < Rank(y)

Range(s) == {s[k] : k \in DOMAIN s}

\* the least element of a non-empty set of integers
Least(S) == CHOOSE m \in S : \A x \in S : m <= x

Has(d, key) == key \in DOMAIN d

Get(d, key, default) == IF key \in DOMAIN d THEN d[key] ELSE default

\* A dict whose iteration order matters is the sequence of its <<key, value>>
\* items in insertion order.
DictKeys(d) == [k \in DOMAIN d |-> d[k][1]]

DictHas(d, key) == \E k \in DOMAIN d : d[k][1] = key

DictGet(d, key) == d[CHOOSE k \in DOMAIN d : d[k][1] = key][2]

\* d[key] = value: a new key goes last, a known key keeps its place
DictSet(d, key, value) ==
  IF DictHas(d, key)
  THEN [k \in DOMAIN d |-> IF d[k][1] = key THEN <<key, value>> ELSE d[k]]
  ELSE Append(d, <<key, value>>)

\* loosely typed values of a resources mapping
IntVal(n) == [t |-> "int", v |-> n]

StrVal(s) == [t |-> "str", v |-> s]

NoneVal == [t |-> "none"]

BoolVal(b) == [t |-> "bool", v |-> b]

\* a float, written as in YAML
FloatVal(x) == [t |-> "float", v |-> x]

\* the finite floats of the model and their integer parts
Floats == ("0.5" :> 0) @@ ("2.5" :> 2)

\* a YAML sequence and a YAML mapping; the mapping is the function from its
\* keys to its values
ListVal(s) == [t |-> "list", v |-> s]

MapVal(m) == [t |-> "map", v |-> m]

\* the decimal strings of the model and the integers they denote
Numerals == ("0" :> 0) @@ ("1" :> 1) @@ ("7" :> 7) @@ ("250" :> 250)

\* int(val): the integer, or the exception raised
PyInt(val) ==
  CASE val.t = "int" -> [ok |-> TRUE, v |-> val.v]
    [] val.t = "bool" -> [ok |-> TRUE, v |-> IF val.v THEN 1 ELSE 0]
    [] val.t = "float" -> IF val.v \in DOMAIN Floats THEN [ok |-> TRUE, v |-> Floats[val.v]]
                          ELSE IF val.v = ".nan" THEN [ok |-> FALSE, exc |-> "ValueError"]
                          ELSE [ok |-> FALSE, exc |-> "OverflowError"]
    [] val.t = "str" -> IF val.v \in DOMAIN Numerals
                        THEN [ok |-> TRUE, v |-> Numerals[val.v]]
                        ELSE [ok |-> FALSE, exc |-> "ValueError"]
    [] OTHER -> [ok |-> FALSE, exc |-> "TypeError"]

\* str(val) for None, a string, a bool and an integer of the model
PyStr(val) ==
  CASE val.t = "none" -> "None"
    [] val.t = "str" -> val.v
    [] val.t = "bool" -> IF val.v THEN "True" ELSE "False"
    [] val.t = "int" -> CHOOSE s \in DOMAIN Numerals : Numerals[s] = val.v

\* bool(val), the test that `val or default` makes
Truthy(val) ==
  CASE val.t = "none" -> FALSE
    [] val.t = "str" -> val.v # ""
    [] val.t = "bool" -> val.v
    [] val.t = "int" -> val.v # 0
    [] val.t = "float" -> val.v # "0.0"
    [] val.t = "list" -> val.v # << >>
    [] val.t = "map" -> DOMAIN val.v # {}

\* dict(val) for a mapping, a string, a number and a list of scalars: the
\* dict, or the exception raised
PyDict(val) ==
  CASE val.t = "map" -> [ok |-> TRUE, v |-> val.v]
    [] val.t = "str" -> IF val.v = "" THEN [ok |-> TRUE, v |-> EmptyDict] ELSE [ok |-> FALSE, exc |-> "ValueError"]
    [] val.t = "list" -> IF val.v = << >> THEN [ok |-> TRUE, v |-> EmptyDict] ELSE [ok |-> FALSE, exc |-> "TypeError"]
    [] OTHER -> [ok |-> FALSE, exc |-> "TypeError"]

\* a value the parser passes on as it is: None or a string
Plain(val) == IF val.t = "none" THEN None ELSE val.v

DEFAULT_PRIORITY == 0

DEFAULT_TIMEOUT_MS == 10000

\* the set of line 10 without its last member
ValidRiskLevelsNoCritical == {"low", "medium", "high"}

VALID_RISK_LEVELS == {"low", "medium", "high", "critical"}

\* grammar.TaskNode
TaskNode(name, agent, input, resources, labels) == [name |-> name, agent |-> agent, input |-> input, resources |-> resources, labels |-> labels]

\* grammar.Edge
Edge(source, target, condition) == [source |-> source, target |-> target, condition |-> condition]

\* grammar.Policy
Policy(risk_level, requires_approval, retention) == [risk_level |-> risk_level, requires_approval |-> requires_approval, retention |-> retention, extra |-> EmptyDict]

\* grammar.FlowDocument
FlowDocument(id, tenant, tasks, edges, policy) == [version |-> 1, id |-> id, tenant |-> tenant, tasks |-> tasks, edges |-> edges, policy |-> policy]

\* ir.IRTask
IRTask(name, agent, input, priority, timeout_ms, labels) == [name |-> name, agent |-> agent, input |-> input, priority |-> priority, timeout_ms |-> timeout_ms, labels |-> labels]

\* IREdge(source=..., target=...): the condition is left at its default
IREdgeDefaultCondition(source, target, condition) == [source |-> source, target |-> target, condition |-> None]

\* ir.IREdge
IREdge(source, target, condition) == [source |-> source, target |-> target, condition |-> condition]

\* ir.IRPolicy
IRPolicy(risk_level, requires_approval, retention) == [risk_level |-> risk_level, requires_approval |-> requires_approval, retention |-> retention]

\* ir.IRFlow
IRFlow(id, tenant, tasks, edges, policy) == [id |-> id, tenant |-> tenant, tasks |-> tasks, edges |-> edges, policy |-> policy]

\* errors.ValidationError with its message: the fixed text and the values put into it
ValidationError(msg, name, field) == [type |-> "ValidationError", msg |-> msg, name |-> name, field |-> field]

\* errors.ParseError with its message
ParseError(msg) == [type |-> "ParseError", msg |-> msg, name |-> None, field |-> None]

\* an exception of another type that parse_yaml lets through
Uncaught(exc) == [type |-> exc, msg |-> "", name |-> None, field |-> None]

NoError == [type |-> "none"]

\* no YAML source: the FlowDocument or the IRFlow was built by its constructor
NoSource == [t |-> "unset"]

NoFlow == [id |-> None]

\* the result a call has returned; NoArtifact before the first call returns
Result(x) == [value |-> x]

NoArtifact == [returned |-> FALSE]

\* one returned call of a projection: the order _topological_order gave it and
\* the value it returned
Return(callee, ord, value) == [callee |-> callee, order |-> ord, value |-> value]

----------------------------------------------------------------------------
(* parser.parse_yaml                                                       *)
(*                                                                         *)
(* raw is what yaml.safe_load made of the source text: a value built from  *)
(* NoneVal, BoolVal, IntVal, StrVal, ListVal and MapVal, or YamlError when *)
(* the text is not YAML.                                                   *)

YamlError == [t |-> "YAMLError"]

\* val or {}
OrEmptyDict(val) == IF Truthy(val) THEN val ELSE MapVal(EmptyDict)

\* val or []
OrEmptyList(val) == IF Truthy(val) THEN val ELSE ListVal(<< >>)

\* dict(m.get(key, {}) or {}): the dict, or the exception raised
DictField(m, key) == PyDict(OrEmptyDict(Get(m, key, MapVal(EmptyDict))))

\* a mapping of input or labels handed on with its values as they are, which
\* are strings or None
Values(m) == [k \in DOMAIN m |-> Plain(m[k])]

\* lines 36-46: the exception that the entry t of tasks raises, if any
ParseTaskError(t) ==
  IF t.t # "map" THEN ParseError("each task entry must be a mapping")
  ELSE IF ~DictField(t.v, "input").ok THEN Uncaught(DictField(t.v, "input").exc)
  ELSE IF ~DictField(t.v, "resources").ok THEN Uncaught(DictField(t.v, "resources").exc)
  ELSE IF ~DictField(t.v, "labels").ok THEN Uncaught(DictField(t.v, "labels").exc)
  ELSE NoError

\* lines 38-46: the TaskNode of the entry t
ParseTask(t) ==
  TaskNode(PyStr(Get(t.v, "name", StrVal(""))),
           PyStr(Get(t.v, "agent", StrVal(""))),
           Values(DictField(t.v, "input").v),
           DictField(t.v, "resources").v,
           Values(DictField(t.v, "labels").v))

\* the Edge of the entry e with condition=str(e.get("condition", ""))
ParseEdgeConditionStr(e) ==
  Edge(PyStr(Get(e.v, "from", StrVal(""))),
       PyStr(Get(e.v, "to", StrVal(""))),
       PyStr(Get(e.v, "condition", StrVal(""))))

\* lines 55-61: the Edge of the entry e
ParseEdge(e) ==
  Edge(PyStr(Get(e.v, "from", StrVal(""))),
       PyStr(Get(e.v, "to", StrVal(""))),
       Plain(Get(e.v, "condition", NoneVal)))

\* the Policy of the mapping rp with extra=dict(raw_policy): every key is kept
ParsePolicyExtraAll(rp) ==
  [risk_level |-> PyStr(Get(rp, "risk_level", StrVal("low"))),
   requires_approval |-> Truthy(Get(rp, "requires_approval", BoolVal(FALSE))),
   retention |-> Plain(Get(rp, "retention", NoneVal)),
   extra |-> [k \in DOMAIN rp |-> Plain(rp[k])]]

\* lines 64-73: the Policy of the mapping rp
ParsePolicy(rp) ==
  [risk_level |-> PyStr(Get(rp, "risk_level", StrVal("low"))),
   requires_approval |-> Truthy(Get(rp, "requires_approval", BoolVal(FALSE))),
   retention |-> Plain(Get(rp, "retention", NoneVal)),
   extra |-> [k \in DOMAIN rp \ {"risk_level", "requires_approval", "retention"} |-> Plain(rp[k])]]

\* lines 21-73: the exception parse_yaml raises on r, if any
ParseYamlError(r) ==
  IF r.t = "YAMLError" THEN ParseError("YAML parse error")
  ELSE IF r.t # "map" THEN ParseError("top-level document must be a mapping")
  ELSE IF ~PyInt(Get(r.v, "version", IntVal(1))).ok THEN Uncaught(PyInt(Get(r.v, "version", IntVal(1))).exc)
  ELSE LET raw_tasks == Get(r.v, "tasks", NoneVal)
           raw_edges == OrEmptyList(Get(r.v, "edges", NoneVal))
           raw_policy == OrEmptyDict(Get(r.v, "policy", NoneVal))
       IN IF raw_tasks.t = "none" THEN ParseError("missing required field: 'tasks'")
          ELSE IF raw_tasks.t # "list" THEN ParseError("'tasks' must be a list")
          ELSE IF \E k \in DOMAIN raw_tasks.v : ParseTaskError(raw_tasks.v[k]) # NoError
          THEN ParseTaskError(raw_tasks.v[Least({k \in DOMAIN raw_tasks.v : ParseTaskError(raw_tasks.v[k]) # NoError})])
          ELSE IF raw_edges.t # "list" THEN ParseError("edges must be a list")
          ELSE IF \E k \in DOMAIN raw_edges.v : raw_edges.v[k].t # "map" THEN ParseError("each edge entry must be a mapping")
          ELSE IF raw_policy.t # "map" THEN Uncaught("AttributeError")
          ELSE NoError

\* lines 29-82: the FlowDocument parse_yaml returns for r
ParseYamlDocument(r) ==
  LET raw_tasks == Get(r.v, "tasks", NoneVal)
      raw_edges == OrEmptyList(Get(r.v, "edges", NoneVal))
      raw_policy == OrEmptyDict(Get(r.v, "policy", NoneVal))
  IN [version |-> PyInt(Get(r.v, "version", IntVal(1))).v,
      id |-> PyStr(Get(r.v, "id", StrVal(""))),
      tenant |-> PyStr(Get(r.v, "tenant", StrVal(""))),
      tasks |-> [k \in DOMAIN raw_tasks.v |-> ParseTask(raw_tasks.v[k])],
      edges |-> [k \in DOMAIN raw_edges.v |-> ParseEdge(raw_edges.v[k])],
      policy |-> ParsePolicy(raw_policy.v)]

\* parse_yaml(src), and validate_and_normalize called on its result
ParseYaml ==
  /\ pc = "parse"
  /\ IF ParseYamlError(raw) # NoError
     THEN /\ error' = ParseYamlError(raw)
          /\ pc' = "failed"
          /\ doc' = doc
     ELSE /\ doc' = ParseYamlDocument(raw)
          /\ pc' = "validate"
          /\ error' = error
  /\ UNCHANGED <<raw, idx, seen_names, ir_tasks, ir_edges, flow>>
  /\ UNCHANGED <<dfsVars, topoVars, outVars>>

----------------------------------------------------------------------------
(* validator.validate_and_normalize                                        *)

Raise(e) ==
  /\ error' = e
  /\ pc' = "failed"

\* _int_field with `resources.get(key) or default`: a value that is false
\* gives way to the default
IntFieldFalsyIsDefault(resources, key, default, task_name) ==
  LET val == IF key \in DOMAIN resources /\ Truthy(resources[key]) THEN resources[key] ELSE IntVal(default)
      r == PyInt(val)
  IN IF r.ok THEN r
     ELSE IF r.exc \in {"TypeError", "ValueError"}
     THEN [ok |-> FALSE, err |-> ValidationError("must be an integer", task_name, key)]
     ELSE [ok |-> FALSE, err |-> Uncaught(r.exc)]

\* _int_field: the coerced integer, or the ValidationError made of the
\* TypeError or ValueError of int(); any other exception of int() goes through
IntField(resources, key, default, task_name) ==
  LET val == Get(resources, key, IntVal(default))
      r == PyInt(val)
  IN IF r.ok THEN r
     ELSE IF r.exc \in {"TypeError", "ValueError"}
     THEN [ok |-> FALSE, err |-> ValidationError("must be an integer", task_name, key)]
     ELSE [ok |-> FALSE, err |-> Uncaught(r.exc)]

\* lines 34-37 without the test of the task list of lines 38-39
HeaderErrorNoTaskTest(d) ==
  IF Strip(d.id) = ""
  THEN ValidationError("flow id is required and must be non-empty", None, "id")
  ELSE IF Strip(d.tenant) = ""
  THEN ValidationError("tenant is required and must be non-empty", None, "tenant")
  ELSE NoError

\* lines 34-39: the error of the flow id, the tenant or the task list, if any
HeaderError(d) ==
  IF Strip(d.id) = ""
  THEN ValidationError("flow id is required and must be non-empty", None, "id")
  ELSE IF Strip(d.tenant) = ""
  THEN ValidationError("tenant is required and must be non-empty", None, "tenant")
  ELSE IF d.tasks = << >>
  THEN ValidationError("at least one task is required", None, "tasks")
  ELSE NoError

\* lines 34-39: flow id, tenant, task list
CheckHeader ==
  /\ pc = "validate"
  /\ IF HeaderError(doc) # NoError
     THEN Raise(HeaderError(doc))
     ELSE pc' = "tasks" /\ error' = error
  /\ UNCHANGED <<raw, doc, idx, seen_names, ir_tasks, ir_edges, flow>>
  /\ UNCHANGED <<dfsVars, topoVars, outVars>>

\* lines 45-50 with the agent tested before the duplicate name
TaskErrorAgentFirst(t, seen) ==
  IF Strip(t.name) = ""
  THEN ValidationError("task name is required and must be non-empty", None, "name")
  ELSE IF Strip(t.agent) = ""
  THEN ValidationError("agent is required", t.name, "agent")
  ELSE IF t.name \in seen
  THEN ValidationError("duplicate task name", t.name, "name")
  ELSE NoError

\* lines 45-50 without the test of seen_names of lines 47-48
TaskErrorNoDuplicateTest(t, seen) ==
  IF Strip(t.name) = ""
  THEN ValidationError("task name is required and must be non-empty", None, "name")
  ELSE IF Strip(t.agent) = ""
  THEN ValidationError("agent is required", t.name, "agent")
  ELSE NoError

\* lines 45-50: the error of the name or the agent of task t, if any
TaskError(t, seen) ==
  IF Strip(t.name) = ""
  THEN ValidationError("task name is required and must be non-empty", None, "name")
  ELSE IF t.name \in seen
  THEN ValidationError("duplicate task name", t.name, "name")
  ELSE IF Strip(t.agent) = ""
  THEN ValidationError("agent is required", t.name, "agent")
  ELSE NoError

\* lines 53-56: the error of the resources of task t, if any
ResourceError(t) ==
  LET priority == IntField(t.resources, "priority", DEFAULT_PRIORITY, t.name)
      timeout_ms == IntField(t.resources, "timeout_ms", DEFAULT_TIMEOUT_MS, t.name)
  IN IF ~priority.ok THEN priority.err
     ELSE IF ~timeout_ms.ok THEN timeout_ms.err
     ELSE IF timeout_ms.v <= 0 THEN ValidationError("timeout_ms must be > 0", t.name, "timeout_ms")
     ELSE NoError

\* lines 44-65: one iteration of the loop over doc.tasks
CheckTask ==
  /\ pc = "tasks"
  /\ idx <= Len(doc.tasks)
  /\ LET t == doc.tasks[idx]
         priority == IntField(t.resources, "priority", DEFAULT_PRIORITY, t.name)
         timeout_ms == IntField(t.resources, "timeout_ms", DEFAULT_TIMEOUT_MS, t.name)
     IN IF TaskError(t, seen_names) # NoError
        THEN Raise(TaskError(t, seen_names)) /\ UNCHANGED <<idx, seen_names, ir_tasks>>
        ELSE IF ResourceError(t) # NoError
        THEN Raise(ResourceError(t)) /\ seen_names' = seen_names \cup {t.name} /\ UNCHANGED <<idx, ir_tasks>>
        ELSE /\ seen_names' = seen_names \cup {t.name}
             /\ ir_tasks' = DictSet(ir_tasks, t.name, IRTask(t.name, t.agent, t.input, priority.v, timeout_ms.v, t.labels))
             /\ idx' = idx + 1
             /\ UNCHANGED <<pc, error>>
  /\ UNCHANGED <<raw, doc, ir_edges, flow>>
  /\ UNCHANGED <<dfsVars, topoVars, outVars>>

\* line 67: the task loop is over, the edge loop starts
TasksDone ==
  /\ pc = "tasks"
  /\ idx > Len(doc.tasks)
  /\ pc' = "edges"
  /\ idx' = 1
  /\ ir_edges' = << >>
  /\ UNCHANGED <<raw, doc, seen_names, ir_tasks, error, flow>>
  /\ UNCHANGED <<dfsVars, topoVars, outVars>>

\* lines 69-76 with the target tested before the source
EdgeErrorTargetFirst(e, tasks) ==
  IF ~DictHas(tasks, e.target)
  THEN ValidationError("edge target does not match any task name", e.target, "target")
  ELSE IF ~DictHas(tasks, e.source)
  THEN ValidationError("edge source does not match any task name", e.source, "source")
  ELSE NoError

\* lines 69-76: the error of the source or the target of edge e, if any
EdgeError(e, tasks) ==
  IF ~DictHas(tasks, e.source)
  THEN ValidationError("edge source does not match any task name", e.source, "source")
  ELSE IF ~DictHas(tasks, e.target)
  THEN ValidationError("edge target does not match any task name", e.target, "target")
  ELSE NoError

\* lines 68-77: one iteration of the loop over doc.edges
CheckEdge ==
  /\ pc = "edges"
  /\ idx <= Len(doc.edges)
  /\ LET e == doc.edges[idx]
     IN IF EdgeError(e, ir_tasks) # NoError
        THEN Raise(EdgeError(e, ir_tasks)) /\ UNCHANGED <<idx, ir_edges>>
        ELSE /\ ir_edges' = Append(ir_edges, IREdge(e.source, e.target, e.condition))
             /\ idx' = idx + 1
             /\ UNCHANGED <<pc, error>>
  /\ UNCHANGED <<raw, doc, seen_names, ir_tasks, flow>>
  /\ UNCHANGED <<dfsVars, topoVars, outVars>>

\* lines 79-83: risk_level, after the last edge
CheckPolicy ==
  /\ pc = "edges"
  /\ idx > Len(doc.edges)
  /\ IF doc.policy.risk_level \notin VALID_RISK_LEVELS
     THEN Raise(ValidationError("invalid risk_level", doc.policy.risk_level, "risk_level"))
     ELSE pc' = "assert_dag" /\ error' = error
  /\ UNCHANGED <<raw, doc, idx, seen_names, ir_tasks, ir_edges, flow>>
  /\ UNCHANGED <<dfsVars, topoVars, outVars>>

----------------------------------------------------------------------------
(* validator._assert_dag                                                   *)

\* lines 116-118: graph = {name: set()}, then graph[e.source].add(e.target)
BuildGraph(tasks, edges) ==
  [n \in Range(DictKeys(tasks)) |-> {edges[k].target : k \in {j \in DOMAIN edges : edges[j].source = n}}]

\* a stack frame of dfs: the node and the successors the for loop has yet to reach
Frame(n, rest) == [node |-> n, rest |-> rest]

\* dfs(n) with one mark only: a node is marked processed when it is entered
DfsCallOneMark(n, base) ==
  IF n \in visited
  THEN /\ stack' = base
       /\ UNCHANGED <<visiting, visited, pc, error>>
  ELSE /\ visited' = visited \cup {n}
       /\ stack' = Append(base, Frame(n, graph[n]))
       /\ UNCHANGED <<visiting, pc, error>>

\* sys.getrecursionlimit() of CPython as it is built: the interpreter raises
\* RecursionError at the call that would bring the depth of the Python stack
\* to this number
RecursionLimit == 1000

\* the frames under the first dfs: the caller of validate_and_normalize,
\* validate_and_normalize and _assert_dag
OuterFrames == 3

\* lines 124-130: dfs(n) up to its for loop, called with the stack at base;
\* the call itself fails when the stack is as deep as the interpreter allows
DfsCall(n, base) ==
  IF OuterFrames + Len(base) + 1 >= RecursionLimit
  THEN /\ Raise(Uncaught("RecursionError"))
       /\ stack' = base
       /\ UNCHANGED <<visiting, visited>>
  ELSE IF n \in visiting
  THEN /\ Raise(ValidationError("cycle detected in task dependency graph", n, "edges"))
       /\ stack' = base
       /\ UNCHANGED <<visiting, visited>>
  ELSE IF n \in visited
  THEN /\ stack' = base
       /\ UNCHANGED <<visiting, visited, pc, error>>
  ELSE /\ visiting' = visiting \cup {n}
       /\ stack' = Append(base, Frame(n, graph[n]))
       /\ UNCHANGED <<visited, pc, error>>

\* lines 116-121: _assert_dag is entered
AssertDag ==
  /\ pc = "assert_dag"
  /\ graph' = BuildGraph(ir_tasks, ir_edges)
  /\ visiting' = {}
  /\ visited' = {}
  /\ stack' = << >>
  /\ idx' = 1
  /\ pc' = "dfs"
  /\ UNCHANGED <<raw, doc, seen_names, ir_tasks, ir_edges, error, flow>>
  /\ UNCHANGED <<topoVars, outVars>>

\* lines 136-137: the loop over the tasks calls dfs(name)
DfsRoot ==
  /\ pc = "dfs"
  /\ stack = << >>
  /\ idx <= Len(ir_tasks)
  /\ idx' = idx + 1
  /\ DfsCall(DictKeys(ir_tasks)[idx], stack)
  /\ UNCHANGED <<raw, doc, seen_names, ir_tasks, ir_edges, flow, graph>>
  /\ UNCHANGED <<topoVars, outVars>>

\* lines 131-132: the for loop of the innermost dfs takes the next successor,
\* in the iteration order of a set of strings, which is any order
DfsDescend ==
  /\ pc = "dfs"
  /\ stack # << >>
  /\ LET top == stack[Len(stack)]
     IN /\ top.rest # {}
        /\ \E nxt \in top.rest :
             DfsCall(nxt, [stack EXCEPT ![Len(stack)] = Frame(top.node, top.rest \ {nxt})])
  /\ UNCHANGED <<raw, doc, idx, seen_names, ir_tasks, ir_edges, flow, graph>>
  /\ UNCHANGED <<topoVars, outVars>>

\* lines 133-134 without visiting.discard(node)
DfsReturnNoDiscard ==
  /\ pc = "dfs"
  /\ stack # << >>
  /\ LET top == stack[Len(stack)]
     IN /\ top.rest = {}
        /\ visited' = visited \cup {top.node}
        /\ stack' = SubSeq(stack, 1, Len(stack) - 1)
  /\ UNCHANGED <<raw, doc, pc, idx, seen_names, ir_tasks, ir_edges, error, flow, graph, visiting>>
  /\ UNCHANGED <<topoVars, outVars>>

\* lines 133-134 without visited.add(node): nothing is memoized
DfsReturnNoVisited ==
  /\ pc = "dfs"
  /\ stack # << >>
  /\ LET top == stack[Len(stack)]
     IN /\ top.rest = {}
        /\ visiting' = visiting \ {top.node}
        /\ stack' = SubSeq(stack, 1, Len(stack) - 1)
  /\ UNCHANGED <<raw, doc, pc, idx, seen_names, ir_tasks, ir_edges, error, flow, graph, visited>>
  /\ UNCHANGED <<topoVars, outVars>>

\* lines 133-134: the for loop of the innermost dfs is over
DfsReturn ==
  /\ pc = "dfs"
  /\ stack # << >>
  /\ LET top == stack[Len(stack)]
     IN /\ top.rest = {}
        /\ visiting' = visiting \ {top.node}
        /\ visited' = visited \cup {top.node}
        /\ stack' = SubSeq(stack, 1, Len(stack) - 1)
  /\ UNCHANGED <<raw, doc, pc, idx, seen_names, ir_tasks, ir_edges, error, flow, graph>>
  /\ UNCHANGED <<topoVars, outVars>>

\* validate_and_normalize lines 87-99: _assert_dag returned, the IRFlow is built
BuildFlow ==
  /\ pc = "dfs"
  /\ stack = << >>
  /\ idx > Len(ir_tasks)
  /\ flow' = IRFlow(doc.id, doc.tenant, ir_tasks, ir_edges,
                    IRPolicy(doc.policy.risk_level, doc.policy.requires_approval, doc.policy.retention))
  /\ pc' = "ready"
  /\ UNCHANGED <<raw, doc, idx, seen_names, ir_tasks, ir_edges, error>>
  /\ UNCHANGED <<dfsVars, topoVars, outVars>>

----------------------------------------------------------------------------
(* compiler._topological_order                                             *)

RECURSIVE Insert(_, _)
\* x put into the sorted sequence s, after the elements not greater than it
Insert(x, s) ==
  IF s = << >> THEN <<x>>
  ELSE IF StrLess(x, Head(s)) THEN <<x>> \o s
  ELSE <<Head(s)>> \o Insert(x, Tail(s))

RECURSIVE Sorted(_)
\* sorted(s) for a sequence of names
Sorted(s) == IF s = << >> THEN << >> ELSE Insert(Head(s), Sorted(Tail(s)))

\* the sequence of the names of the set S in ascending order
SortedSet(S) ==
  LET ranked == [k \in DOMAIN Alphabet |-> Alphabet[k]]
  IN SelectSeq(ranked, LAMBDA x : x \in S)

\* in_degree counting the distinct sources of the edges into a task: an edge
\* declared twice counts once
InDegreeDistinct(f) ==
  [n \in Range(DictKeys(f.tasks)) |-> Cardinality({f.edges[k].source : k \in {j \in DOMAIN f.edges : f.edges[j].target = n}})]

\* lines 110, 114: every task starts at 0 and gains 1 for each edge into it
InDegree(f) ==
  [n \in Range(DictKeys(f.tasks)) |-> Cardinality({k \in DOMAIN f.edges : f.edges[k].target = n})]

\* lines 111-113: adj[source] lists the targets in edge order
Adj(f) ==
  [n \in Range(DictKeys(f.tasks)) |-> 
     LET mine == SelectSeq(f.edges, LAMBDA e : e.source = n)
     IN [k \in DOMAIN mine |-> mine[k].target]]

\* the queue of lines 116-118 without sorted(): the names of in-degree 0 in
\* the order in_degree holds them, which is the order of flow.tasks
InitialQueueAsDeclared(deg) == SelectSeq(DictKeys(flow.tasks), LAMBDA n : deg[n] = 0)

\* the queue of lines 116-118 without the filter on the in-degree
InitialQueueAll(deg) == SortedSet(DOMAIN deg)

\* lines 116-118: the names of in-degree 0 out of sorted(in_degree.items())
InitialQueue(deg) == SortedSet({n \in DOMAIN deg : deg[n] = 0})

\* _topological_order keeping the in-degree counters of the call before
TopoInitStaleDegrees ==
  LET deg == IF calls = 0 THEN InDegree(flow) ELSE in_degree
  IN /\ in_degree' = deg
     /\ adj' = Adj(flow)
     /\ queue' = InitialQueue(deg)
     /\ order' = << >>
     /\ node' = None
     /\ nxts' = << >>

\* lines 110-119: _topological_order up to its while loop
TopoInit ==
  /\ in_degree' = InDegree(flow)
  /\ adj' = Adj(flow)
  /\ queue' = InitialQueue(InDegree(flow))
  /\ order' = << >>
  /\ node' = None
  /\ nxts' = << >>

\* ir_to_monolith_tasks line 31: order = _topological_order(flow)
CallMonolith ==
  /\ pc = "ready"
  /\ calls < MaxCalls
  /\ caller' = "monolith"
  /\ calls' = calls + 1
  /\ pc' = "topo"
  /\ TopoInit
  /\ UNCHANGED <<raw, doc, flow, artifactA, artifactB, returns>>
  /\ UNCHANGED <<valVars, dfsVars>>

\* ir_to_waterfall_spec line 72: order = _topological_order(flow)
CallWaterfall ==
  /\ pc = "ready"
  /\ calls < MaxCalls
  /\ caller' = "waterfall"
  /\ calls' = calls + 1
  /\ pc' = "topo"
  /\ TopoInit
  /\ UNCHANGED <<raw, doc, flow, artifactA, artifactB, returns>>
  /\ UNCHANGED <<valVars, dfsVars>>

\* line 123 without sorted(): the successors in edge order
SuccessorsUnsorted(a, n) == a[n]

\* line 123: sorted(adj[n])
Successors(a, n) == Sorted(a[n])

\* the while loop with queue.pop(): it takes the last of the queue
TopoPopLast ==
  /\ pc = "topo"
  /\ nxts = << >>
  /\ queue # << >>
  /\ node' = queue[Len(queue)]
  /\ queue' = SubSeq(queue, 1, Len(queue) - 1)
  /\ order' = Append(order, queue[Len(queue)])
  /\ nxts' = Successors(adj, queue[Len(queue)])
  /\ UNCHANGED <<raw, doc, pc, flow, in_degree, adj>>
  /\ UNCHANGED <<valVars, dfsVars, outVars>>

\* lines 120-123: the while loop takes the head of the queue
TopoPop ==
  /\ pc = "topo"
  /\ nxts = << >>
  /\ queue # << >>
  /\ node' = Head(queue)
  /\ queue' = Tail(queue)
  /\ order' = Append(order, Head(queue))
  /\ nxts' = Successors(adj, Head(queue))
  /\ UNCHANGED <<raw, doc, pc, flow, in_degree, adj>>
  /\ UNCHANGED <<valVars, dfsVars, outVars>>

\* the test of line 125 passing one decrement early
ReadyEarly(deg) == deg <= 1

\* line 125: the test that lets a successor into the queue
Ready(deg) == deg = 0

\* lines 123-126: one iteration of the for loop over sorted(adj[node])
TopoRelax ==
  /\ pc = "topo"
  /\ nxts # << >>
  /\ LET nxt == Head(nxts)
         deg == in_degree[nxt] - 1
     IN /\ in_degree' = [in_degree EXCEPT ![nxt] = deg]
        /\ queue' = IF Ready(deg) THEN Append(queue, nxt) ELSE queue
  /\ nxts' = Tail(nxts)
  /\ UNCHANGED <<raw, doc, pc, flow, adj, order, node>>
  /\ UNCHANGED <<valVars, dfsVars, outVars>>

----------------------------------------------------------------------------
(* compiler.ir_to_monolith_tasks, compiler.ir_to_waterfall_spec            *)

\* **t.labels first, then the derived labels over them
LabelsDerivedLast(f, t) ==
  [flow_id |-> f.id, task_name |-> t.name, agent |-> t.agent] @@ t.labels

\* lines 39-44: the derived labels, then **t.labels over them
Labels(f, t) ==
  t.labels @@ [flow_id |-> f.id, task_name |-> t.name, agent |-> t.agent]

\* the payload with the flow id in the place of the tenant
PayloadOwnerIsFlowId(f, t) ==
  [meta |-> [owner |-> f.id,
             priority |-> t.priority,
             labels |-> Labels(f, t),
             resource_hints |-> [timeout_ms |-> t.timeout_ms]],
   agent |-> t.agent,
   input |-> t.input,
   flow_id |-> f.id]

\* lines 35-52: the payload of one task
Payload(f, t) ==
  [meta |-> [owner |-> f.tenant,
             priority |-> t.priority,
             labels |-> Labels(f, t),
             resource_hints |-> [timeout_ms |-> t.timeout_ms]],
   agent |-> t.agent,
   input |-> t.input,
   flow_id |-> f.id]

\* one payload per task in the order of flow.tasks, whatever the order computed
MonolithTasksAsDeclared(f, ord) == [k \in DOMAIN f.tasks |-> Payload(f, f.tasks[k][2])]

\* lines 32-53: one payload per name of the order
MonolithTasks(f, ord) == [k \in DOMAIN ord |-> Payload(f, DictGet(f.tasks, ord[k]))]

\* lines 92-99: one record per edge of the flow, in the order of flow.edges
WaterfallEdgeList(edges) ==
  [k \in DOMAIN edges |->
     [from |-> edges[k].source, to |-> edges[k].target, condition |-> edges[k].condition]]

RECURSIVE WaterfallEdgesOnce(_)
\* the edge list with every edge listed once: an edge equal to an earlier one
\* is left out
WaterfallEdgesOnce(f) ==
  IF f.edges = << >> THEN << >>
  ELSE LET front == SubSeq(f.edges, 1, Len(f.edges) - 1)
           rest == WaterfallEdgesOnce([f EXCEPT !.edges = front])
           last == WaterfallEdgeList(f.edges)[Len(f.edges)]
       IN IF last \in Range(rest) THEN rest ELSE Append(rest, last)

\* lines 92-99: the edges of the spec
WaterfallEdges(f) == WaterfallEdgeList(f.edges)

\* lines 73-100
WaterfallSpec(f, ord) ==
  [id |-> f.id,
   tenant |-> f.tenant,
   policy |-> [risk_level |-> f.policy.risk_level,
               requires_approval |-> f.policy.requires_approval,
               retention |-> f.policy.retention],
   tasks |-> [k \in DOMAIN ord |->
                LET t == DictGet(f.tasks, ord[k])
                IN [name |-> t.name, agent |-> t.agent, priority |-> t.priority,
                    timeout_ms |-> t.timeout_ms, labels |-> t.labels]],
   edges |-> WaterfallEdges(f)]

\* ir_to_monolith_tasks putting flow.tasks into the order it computed
EmitMonolithReordersFlow ==
  /\ pc = "topo"
  /\ caller = "monolith"
  /\ nxts = << >>
  /\ queue = << >>
  /\ artifactA' = Result(MonolithTasks(flow, order))
  /\ returns' = Append(returns, Return("monolith", order, MonolithTasks(flow, order)))
  /\ flow' = [flow EXCEPT !.tasks = [k \in DOMAIN order |-> <<order[k], DictGet(flow.tasks, order[k])>>]]
  /\ pc' = "ready"
  /\ UNCHANGED <<raw, doc, caller, calls, artifactB>>
  /\ UNCHANGED <<valVars, dfsVars, topoVars>>

\* _topological_order line 128 returns, ir_to_monolith_tasks lines 32-53
EmitMonolith ==
  /\ pc = "topo"
  /\ caller = "monolith"
  /\ nxts = << >>
  /\ queue = << >>
  /\ artifactA' = Result(MonolithTasks(flow, order))
  /\ returns' = Append(returns, Return("monolith", order, MonolithTasks(flow, order)))
  /\ pc' = "ready"
  /\ UNCHANGED <<raw, doc, flow, caller, calls, artifactB>>
  /\ UNCHANGED <<valVars, dfsVars, topoVars>>

\* _topological_order line 128 returns, ir_to_waterfall_spec lines 73-100
EmitWaterfall ==
  /\ pc = "topo"
  /\ caller = "waterfall"
  /\ nxts = << >>
  /\ queue = << >>
  /\ artifactB' = Result(WaterfallSpec(flow, order))
  /\ returns' = Append(returns, Return("waterfall", order, WaterfallSpec(flow, order)))
  /\ pc' = "ready"
  /\ UNCHANGED <<raw, doc, flow, caller, calls, artifactA>>
  /\ UNCHANGED <<valVars, dfsVars, topoVars>>

----------------------------------------------------------------------------
(* The documents the model validates and compiles.                         *)

SeqsUpTo(S, n) == UNION {[1..k -> S] : k \in 0..n}

InjSeqs(S, n) == {q \in UNION {[1..k -> S] : k \in 1..n} : \A i, j \in DOMAIN q : i # j => q[i] # q[j]}

PlainTask(name) == TaskNode(name, "worker", EmptyDict, EmptyDict, EmptyDict)

DefaultPolicy == Policy("low", FALSE, None)

\* well-formed documents over every task order and edge list within the bounds
GraphDocs(d) ==
  \E names \in InjSeqs(Names, MaxTasks) :
    \E edges \in SeqsUpTo({Edge(x, y, None) : x, y \in Range(names)}, MaxEdges) :
      d = FlowDocument("flow1", "acme", [k \in DOMAIN names |-> PlainTask(names[k])], edges, DefaultPolicy)

\* a diamond d -> {b, c} -> a, an edge repeated under another condition, an
\* edge that closes a cycle and an edge declared twice
TemplateEdges == <<Edge("d", "b", None), Edge("d", "c", "ok"), Edge("b", "a", None), Edge("c", "a", None), Edge("b", "a", "retry"), Edge("a", "d", None), Edge("d", "b", None)>>

RECURSIVE Pick(_, _)
\* the subsequence of s at the positions in P
Pick(s, P) ==
  IF s = << >> THEN << >>
  ELSE LET rest == Pick(SubSeq(s, 1, Len(s) - 1), P)
       IN IF Len(s) \in P THEN Append(rest, s[Len(s)]) ELSE rest

DiamondOrders == {<<"a", "b", "c", "d">>, <<"d", "c", "b", "a">>, <<"c", "a", "d", "b">>}

\* four tasks and every sublist of the template edges
DiamondDocs(d) ==
  \E names \in DiamondOrders, P \in SUBSET DOMAIN TemplateEdges :
    d = FlowDocument("flow1", "acme", [k \in DOMAIN names |-> PlainTask(names[k])], Pick(TemplateEdges, P), DefaultPolicy)

\* tasks with a blank name or agent, a timeout_ms of 0, or both
FieldTasks ==
  {TaskNode(n, a, EmptyDict, EmptyDict, EmptyDict) : n \in {"", "a", "b"}, a \in {"", "worker"}}
    \cup {TaskNode(n, "worker", EmptyDict, [timeout_ms |-> IntVal(0)], EmptyDict) : n \in {"a", "b"}}
    \cup {TaskNode("a", "", EmptyDict, [timeout_ms |-> IntVal(0)], EmptyDict)}

FieldEdges == {<< >>, <<Edge("a", "b", None)>>, <<Edge("a", "b", None), Edge("b", "a", None)>>, <<Edge("a", "ghost", None)>>, <<Edge("ghost", "a", None), Edge("a", "a", None)>>}

\* documents with a faulty flow id or tenant, and more faults behind it
HeaderDocs(d) ==
  \E i \in {"", " ", "flow1"}, t \in {"", " ", "acme"}, r \in {"low", "extreme"}, edges \in FieldEdges :
    \E tasks \in SeqsUpTo(FieldTasks, 1) \cup {<<PlainTask("a"), PlainTask("a")>>} :
      d = FlowDocument(i, t, tasks, edges, Policy(r, FALSE, None))

\* documents with faulty tasks, edges and policy, several faults at a time
FieldDocs(d) ==
  \E r \in {"low", "extreme"}, edges \in FieldEdges :
    \E tasks \in SeqsUpTo(FieldTasks, MaxFieldTasks) :
      d = FlowDocument("flow1", "acme", tasks, edges, Policy(r, FALSE, None))

OwnLabels == {EmptyDict, [team |-> "core"], [flow_id |-> "spoofed"], [task_name |-> "b"], [agent |-> "other", team |-> "core"]}

\* two tasks that carry labels, resources and input
PayloadDocs(d) ==
  \E i \in {EmptyDict, [query |-> "q"]}, r \in {EmptyDict, [priority |-> IntVal(5), timeout_ms |-> IntVal(2000)]} :
    \E la \in OwnLabels, lb \in OwnLabels :
      \E edges \in {<< >>, <<Edge("a", "b", None)>>, <<Edge("b", "a", "ok")>>} :
        d = FlowDocument("flow1", "acme",
                         <<TaskNode("a", "llm", i, r, la), TaskNode("b", "retriever", EmptyDict, EmptyDict, lb)>>,
                         edges, Policy("high", TRUE, "30d"))

\* two tasks and every list of two edges over their names and two names that
\* no task bears
EdgeDocs(d) ==
  \E r \in {"low", "extreme"} :
    \E edges \in SeqsUpTo({Edge(x, y, None) : x, y \in {"a", "b", "ghost", "phantom"}}, 2) :
      d = FlowDocument("flow1", "acme", <<PlainTask("b"), PlainTask("a")>>, edges, Policy(r, FALSE, None))

\* every policy over the recognised risk levels and three others
PolicyDocs(d) ==
  \E r \in {"low", "medium", "high", "critical", "extreme", "LOW", ""}, q \in BOOLEAN, n \in {None, "30d"} :
    \E edges \in {<< >>, <<Edge("a", "b", None)>>, <<Edge("a", "b", None), Edge("b", "a", None)>>, <<Edge("a", "ghost", None)>>} :
      d = FlowDocument("flow1", "acme", <<PlainTask("a"), PlainTask("b")>>, edges, Policy(r, q, n))

\* resources with integers, decimal strings and values that int() rejects
ResourceMaps ==
  {EmptyDict, [timeout_ms |-> IntVal(0)], [timeout_ms |-> IntVal(-5)], [timeout_ms |-> StrVal("0")],
   [timeout_ms |-> StrVal("250")], [timeout_ms |-> StrVal("soon")], [timeout_ms |-> NoneVal],
   [priority |-> StrVal("high")], [priority |-> NoneVal, timeout_ms |-> IntVal(0)],
   [priority |-> IntVal(-3), timeout_ms |-> IntVal(250)], [priority |-> StrVal("7")],
   [priority |-> IntVal(5)], [priority |-> IntVal(0), timeout_ms |-> IntVal(10000)],
   [timeout_ms |-> FloatVal("0.5")], [priority |-> FloatVal("2.5")], [priority |-> FloatVal(".nan")],
   [timeout_ms |-> FloatVal(".inf")]}

\* two tasks with every pair of these resources
ResourceDocs(d) ==
  \E ra \in ResourceMaps, rb \in ResourceMaps, agent \in {"worker", ""} :
    d = FlowDocument("flow1", "acme",
                     <<TaskNode("a", agent, EmptyDict, ra, EmptyDict), TaskNode("b", "worker", EmptyDict, rb, EmptyDict)>>,
                     <<Edge("b", "a", None)>>, DefaultPolicy)

Documents(d) == GraphDocs(d) \/ DiamondDocs(d) \/ HeaderDocs(d) \/ FieldDocs(d) \/ PayloadDocs(d) \/ EdgeDocs(d) \/ PolicyDocs(d) \/ ResourceDocs(d)

----------------------------------------------------------------------------

\* validate_and_normalize is called on a document
Init ==
  /\ Documents(doc)
  /\ raw = NoSource
  /\ pc = "validate"
  /\ idx = 1
  /\ seen_names = {}
  /\ ir_tasks = << >>
  /\ ir_edges = << >>
  /\ error = NoError
  /\ graph = << >>
  /\ visiting = {}
  /\ visited = {}
  /\ stack = << >>
  /\ flow = NoFlow
  /\ in_degree = << >>
  /\ adj = << >>
  /\ queue = << >>
  /\ order = << >>
  /\ node = None
  /\ nxts = << >>
  /\ caller = None
  /\ calls = 0
  /\ artifactA = NoArtifact
  /\ artifactB = NoArtifact
  /\ returns = << >>

Next ==
  \/ CheckHeader
  \/ CheckTask
  \/ TasksDone
  \/ CheckEdge
  \/ CheckPolicy
  \/ AssertDag
  \/ DfsRoot
  \/ DfsDescend
  \/ DfsReturn
  \/ BuildFlow
  \/ CallMonolith
  \/ CallWaterfall
  \/ TopoPop
  \/ TopoRelax
  \/ EmitMonolith
  \/ EmitWaterfall

Spec == Init /\ [][Next]_vars

----------------------------------------------------------------------------
(* validate_and_normalize called twice on equal documents.                 *)

\* what a call of validate_and_normalize ended with: the IRFlow it returned,
\* or the exception it raised
Outcome(f, e) == [flow |-> f, error |-> e]

\* the first call has returned or raised; its outcome is recorded and
\* validate_and_normalize is called again on the same document
ValidateAgain ==
  /\ pc \in {"ready", "failed"}
  /\ returns = << >>
  /\ returns' = <<Return("validate_and_normalize", << >>, Outcome(flow, error))>>
  /\ pc' = "validate"
  /\ idx' = 1
  /\ seen_names' = {}
  /\ ir_tasks' = << >>
  /\ ir_edges' = << >>
  /\ error' = NoError
  /\ graph' = << >>
  /\ visiting' = {}
  /\ visited' = {}
  /\ stack' = << >>
  /\ flow' = NoFlow
  /\ UNCHANGED <<raw, doc, caller, calls, artifactA, artifactB>>
  /\ UNCHANGED topoVars

NextTwice ==
  \/ CheckHeader
  \/ CheckTask
  \/ TasksDone
  \/ CheckEdge
  \/ CheckPolicy
  \/ AssertDag
  \/ DfsRoot
  \/ DfsDescend
  \/ DfsReturn
  \/ BuildFlow
  \/ ValidateAgain

SpecTwice == Init /\ [][NextTwice]_vars

----------------------------------------------------------------------------
(* An IRFlow built by its constructor, as the tests of the compiler build  *)
(* it, and handed to the projections without validate_and_normalize.       *)

NoDocument == [version |-> 0]

\* IRTask(name=..., agent="worker", input={}, priority=0, timeout_ms=10000)
PlainIRTask(name) == IRTask(name, "worker", EmptyDict, DEFAULT_PRIORITY, DEFAULT_TIMEOUT_MS, EmptyDict)

\* the flows over every task order and every edge list within the bounds,
\* edge lists with cycles and self-loops included
DirectFlows(f) ==
  \E names \in InjSeqs(Names, MaxTasks) :
    \E edges \in SeqsUpTo({IREdge(x, y, None) : x, y \in Range(names)}, MaxDirectEdges) :
      f = IRFlow("flow1", "acme", [k \in DOMAIN names |-> <<names[k], PlainIRTask(names[k])>>], edges,
                 IRPolicy("low", FALSE, None))

InitDirect ==
  /\ DirectFlows(flow)
  /\ raw = NoSource
  /\ doc = NoDocument
  /\ pc = "ready"
  /\ idx = 1
  /\ seen_names = {}
  /\ ir_tasks = << >>
  /\ ir_edges = << >>
  /\ error = NoError
  /\ graph = << >>
  /\ visiting = {}
  /\ visited = {}
  /\ stack = << >>
  /\ in_degree = << >>
  /\ adj = << >>
  /\ queue = << >>
  /\ order = << >>
  /\ node = None
  /\ nxts = << >>
  /\ caller = None
  /\ calls = 0
  /\ artifactA = NoArtifact
  /\ artifactB = NoArtifact
  /\ returns = << >>

NextDirect ==
  \/ CallMonolith
  \/ CallWaterfall
  \/ TopoPop
  \/ TopoRelax
  \/ EmitMonolith
  \/ EmitWaterfall

SpecDirect == InitDirect /\ [][NextDirect]_vars

----------------------------------------------------------------------------
(* _assert_dag called on a long index: one chain of tasks, each the        *)
(* source of an edge to the next, declared from its head or from its tail. *)

\* the number of tasks of the chain
ChainLength == 1000

\* the name of the task at place k of the chain
ChainName(k) == ToString(k)

ChainTasks == [k \in 1..ChainLength |-> <<ChainName(k), PlainIRTask(ChainName(k))>>]

ChainEdges == [k \in 1..(ChainLength - 1) |-> IREdge(ChainName(k), ChainName(k + 1), None)]

Reversed(s) == [k \in DOMAIN s |-> s[Len(s) + 1 - k]]

\* _assert_dag(tasks, edges) is called
InitDag ==
  /\ ir_tasks \in {ChainTasks, Reversed(ChainTasks)}
  /\ ir_edges = ChainEdges
  /\ raw = NoSource
  /\ doc = NoDocument
  /\ pc = "assert_dag"
  /\ idx = 1
  /\ seen_names = {}
  /\ error = NoError
  /\ graph = << >>
  /\ visiting = {}
  /\ visited = {}
  /\ stack = << >>
  /\ flow = NoFlow
  /\ in_degree = << >>
  /\ adj = << >>
  /\ queue = << >>
  /\ order = << >>
  /\ node = None
  /\ nxts = << >>
  /\ caller = None
  /\ calls = 0
  /\ artifactA = NoArtifact
  /\ artifactB = NoArtifact
  /\ returns = << >>

\* lines 136-137: the loop over the tasks is over, _assert_dag returns
DagReturn ==
  /\ pc = "dfs"
  /\ stack = << >>
  /\ idx > Len(ir_tasks)
  /\ pc' = "returned"
  /\ UNCHANGED <<raw, doc, idx, seen_names, ir_tasks, ir_edges, error, flow>>
  /\ UNCHANGED <<dfsVars, topoVars, outVars>>

NextDag ==
  \/ AssertDag
  \/ DfsRoot
  \/ DfsDescend
  \/ DfsReturn
  \/ DagReturn

\* the interpreter runs one step after the other: a call that can take a
\* step takes it
SpecDag == InitDag /\ [][NextDag]_vars /\ WF_vars(NextDag)

----------------------------------------------------------------------------
(* YAML documents, parsed by parse_yaml and then validated.                *)

\* marks a key that the mapping does not have
Absent == [t |-> "absent"]

\* the mapping with the keys and values of the pairs q, less the absent ones
RawMap(q) ==
  LET keep == {k \in DOMAIN q : q[k][2].t # "absent"}
  IN [key \in {q[k][1] : k \in keep} |-> q[CHOOSE k \in keep : q[k][1] = key][2]]

RawTask(name) == MapVal([name |-> StrVal(name), agent |-> StrVal("worker")])

RawEdge(source, target) == MapVal([from |-> StrVal(source), to |-> StrVal(target)])

\* an id or a tenant: absent, null, empty, blank, a name, a number
RawIds == {Absent, NoneVal, StrVal(""), StrVal(" "), StrVal("flow1"), IntVal(7)}

\* documents with every id and tenant, over sound and unsound tasks, edges
\* and policy
RawHeaderDocs(r) ==
  \E i \in RawIds, t \in RawIds :
    \E tasks \in {<< >>, <<RawTask("a")>>, <<RawTask("a"), RawTask("b")>>, <<RawTask("b"), RawTask("b")>>} :
      \E edges \in {Absent, ListVal(<<RawEdge("a", "b")>>), ListVal(<<RawEdge("a", "b"), RawEdge("b", "a")>>)} :
        \E policy \in {Absent, MapVal([risk_level |-> StrVal("extreme")])} :
          r = MapVal(RawMap(<<<<"id", i>>, <<"tenant", t>>, <<"tasks", ListVal(tasks)>>, <<"edges", edges>>, <<"policy", policy>>>>))

FullRawTask ==
  MapVal([name |-> StrVal("a"), agent |-> StrVal("llm"), input |-> MapVal([query |-> StrVal("q")]),
          resources |-> MapVal([priority |-> StrVal("7"), timeout_ms |-> IntVal(250)]),
          labels |-> MapVal([team |-> StrVal("core")])])

RawTaskFields ==
  {Absent, NoneVal, StrVal("a"), MapVal([a |-> RawTask("a")]), ListVal(<<StrVal("a")>>),
   ListVal(<<RawTask("a"), NoneVal>>), ListVal(<<FullRawTask>>),
   ListVal(<<MapVal([name |-> NoneVal, input |-> NoneVal, labels |-> StrVal("")])>>),
   ListVal(<<MapVal([name |-> StrVal("a"), agent |-> StrVal("worker"), input |-> StrVal("q")])>>),
   ListVal(<<MapVal([name |-> StrVal("a"), agent |-> StrVal("worker"), resources |-> IntVal(7)])>>)}

RawEdgeFields ==
  {Absent, NoneVal, StrVal(""), StrVal("a->a"), ListVal(<<StrVal("a")>>),
   ListVal(<<MapVal([from |-> StrVal("a"), to |-> StrVal("a"), condition |-> StrVal("ok")])>>),
   ListVal(<<MapVal([to |-> StrVal("a")])>>)}

RawPolicyFields ==
  {Absent, NoneVal, StrVal("strict"),
   MapVal([risk_level |-> StrVal("high"), requires_approval |-> StrVal("yes"), retention |-> StrVal("30d"), owner |-> StrVal("ops")]),
   MapVal([owner |-> StrVal("ops"), level |-> IntVal(3), note |-> NoneVal])}

\* sources that are not YAML or not a mapping, and mappings whose fields
\* have the wrong shape
RawShapeDocs(r) ==
  \/ r \in {YamlError, NoneVal, StrVal("flow"), ListVal(<< >>)}
  \/ \E v \in {Absent, IntVal(1), StrVal("7"), StrVal("one"), NoneVal} :
       \E tasks \in RawTaskFields, edges \in RawEdgeFields, policy \in RawPolicyFields :
         r = MapVal(RawMap(<<<<"version", v>>, <<"id", StrVal("flow1")>>, <<"tenant", StrVal("acme")>>,
                             <<"tasks", tasks>>, <<"edges", edges>>, <<"policy", policy>>>>))

RawDocuments(r) == RawHeaderDocs(r) \/ RawShapeDocs(r)

\* parse_yaml is called on a source text
InitParse ==
  /\ RawDocuments(raw)
  /\ doc = NoDocument
  /\ pc = "parse"
  /\ idx = 1
  /\ seen_names = {}
  /\ ir_tasks = << >>
  /\ ir_edges = << >>
  /\ error = NoError
  /\ graph = << >>
  /\ visiting = {}
  /\ visited = {}
  /\ stack = << >>
  /\ flow = NoFlow
  /\ in_degree = << >>
  /\ adj = << >>
  /\ queue = << >>
  /\ order = << >>
  /\ node = None
  /\ nxts = << >>
  /\ caller = None
  /\ calls = 0
  /\ artifactA = NoArtifact
  /\ artifactB = NoArtifact
  /\ returns = << >>

NextParse ==
  \/ ParseYaml
  \/ CheckHeader
  \/ CheckTask
  \/ TasksDone
  \/ CheckEdge
  \/ CheckPolicy
  \/ AssertDag
  \/ DfsRoot
  \/ DfsDescend
  \/ DfsReturn
  \/ BuildFlow

SpecParse == InitParse /\ [][NextParse]_vars

----------------------------------------------------------------------------
(* Properties of _topological_order and of the two projections.            *)

FlowNames(f) == Range(DictKeys(f.tasks))

\* a projection call has returned: order is the order it used
Returned == pc = "ready" /\ calls > 0

Positions(s, x) == {k \in DOMAIN s : s[k] = x}

TaskOf(f, n) == DictGet(f.tasks, n)

\* C1: in the order computed for a validated flow the source of every edge
\* comes before its target, and so does the payload of the source in the
\* list of ir_to_monolith_tasks.
C1_SourcesBeforeTargets ==
  Returned =>
    \A k \in DOMAIN flow.edges :
      LET u == flow.edges[k].source
          v == flow.edges[k].target
      IN /\ Positions(order, u) # {}
         /\ Positions(order, v) # {}
         /\ \A i \in Positions(order, u), j \in Positions(order, v) : i < j
         /\ artifactA # NoArtifact =>
              /\ Positions(artifactA.value, Payload(flow, TaskOf(flow, u))) # {}
              /\ Positions(artifactA.value, Payload(flow, TaskOf(flow, v))) # {}
              /\ \A i \in Positions(artifactA.value, Payload(flow, TaskOf(flow, u))),
                    j \in Positions(artifactA.value, Payload(flow, TaskOf(flow, v))) : i < j

\* a returned monolith call on three or more tasks with an edge whose target
\* sorts before its source
C1_Witness ==
  /\ Returned
  /\ artifactA # NoArtifact
  /\ Len(order) >= 3
  /\ \E k \in DOMAIN flow.edges : StrLess(flow.edges[k].target, flow.edges[k].source)

\* C2: the order computed for a validated flow is a permutation of its task
\* names, and ir_to_monolith_tasks emits as many payloads as there are tasks.
C2_OrderIsPermutation ==
  Returned =>
    /\ Len(order) = Len(flow.tasks)
    /\ \A n \in FlowNames(flow) : Cardinality(Positions(order, n)) = 1
    /\ Range(order) = FlowNames(flow)
    /\ artifactA # NoArtifact => Len(artifactA.value) = Len(flow.tasks)

\* a returned monolith call on a flow of three or more tasks and two or more edges
C2_Witness ==
  /\ Returned
  /\ artifactA # NoArtifact
  /\ Len(flow.tasks) >= 3
  /\ Len(flow.edges) >= 2

\* the tasks of f all of whose incoming edges come from done, done excluded
ReadySet(f, done) ==
  {n \in FlowNames(f) \ done :
     \A k \in DOMAIN f.edges : f.edges[k].target = n => f.edges[k].source \in done}

Smallest(S) == CHOOSE x \in S : \A y \in S : ~StrLess(y, x)

\* C3 as stated: every task appended to the order is the smallest name among
\* the tasks ready at that moment.
C3_SmallestReadyFirst ==
  pc \in {"topo", "ready"} /\ calls > 0 =>
    \A k \in DOMAIN order :
      LET done == {order[j] : j \in 1..(k - 1)}
      IN order[k] = Smallest(ReadySet(flow, done))

\* the step at which n became ready: 0 with no incoming edge, else the place
\* in ord of the last of its sources
ReadySince(f, ord, n) ==
  LET srcs == {f.edges[k].source : k \in {j \in DOMAIN f.edges : f.edges[j].target = n}}
      at == {0} \cup UNION {Positions(ord, u) : u \in srcs}
  IN CHOOSE m \in at : \A x \in at : x <= m

\* C3 as amended: the ready tasks leave a first-in first-out queue. Every task
\* appended is ready; a task that became ready at an earlier step comes before
\* one that became ready later, and two that became ready at the same step
\* (at the start for the tasks with no incoming edge) come in ascending order.
C3_FifoReadyOrder ==
  pc \in {"topo", "ready"} /\ calls > 0 =>
    /\ \A k \in DOMAIN order : order[k] \in ReadySet(flow, {order[j] : j \in 1..(k - 1)})
    /\ \A i, j \in DOMAIN order :
         i < j =>
           LET ri == ReadySince(flow, order, order[i])
               rj == ReadySince(flow, order, order[j])
           IN \/ ri < rj
              \/ ri = rj /\ StrLess(order[i], order[j])

\* a returned call whose order is not the smallest-ready-first order: a task
\* was appended while a smaller one was ready
C3_Witness ==
  /\ Returned
  /\ \E k \in DOMAIN order :
       order[k] # Smallest(ReadySet(flow, {order[j] : j \in 1..(k - 1)}))

----------------------------------------------------------------------------
(* Properties of validate_and_normalize, stated on the document.           *)

Blank(x) == Strip(x) = ""

DocNames(d) == {d.tasks[k].name : k \in DOMAIN d.tasks}

DocArcs(d) == {<<d.edges[k].source, d.edges[k].target>> : k \in DOMAIN d.edges}

ArcNodes(A) == {a[1] : a \in A} \cup {a[2] : a \in A}

RECURSIVE PathWithin(_, _, _, _)
\* A has a path of 1 to n arcs from x to y
PathWithin(A, x, y, n) ==
  /\ n > 0
  /\ \/ <<x, y>> \in A
     \/ \E a \in A : a[1] = x /\ PathWithin(A, a[2], y, n - 1)

Path(A, x, y) == PathWithin(A, x, y, Cardinality(ArcNodes(A)))

OnCycle(A, x) == Path(A, x, x)

\* a cycle of any length, a self-loop included
HasCycle(A) == \E x \in ArcNodes(A) : OnCycle(A, x)

\* a cycle through two tasks or more
HasLongCycle(A) == \E x, y \in ArcNodes(A) : x # y /\ Path(A, x, y) /\ Path(A, y, x)

\* the value of a resources key is an integer, a decimal string or a finite float
Coercible(r, key) ==
  key \in DOMAIN r =>
    \/ r[key].t = "int"
    \/ r[key].t = "str" /\ r[key].v \in {"0", "1", "7", "250"}
    \/ r[key].t = "float" /\ r[key].v \in {"0.5", "2.5"}

Coerced(r, key, default) ==
  IF key \notin DOMAIN r THEN default
  ELSE IF r[key].t = "int" THEN r[key].v
  ELSE IF r[key].t = "str" THEN Numerals[r[key].v]
  ELSE Floats[r[key].v]

ResourcesOK(t) ==
  /\ Coercible(t.resources, "priority")
  /\ Coercible(t.resources, "timeout_ms")
  /\ Coerced(t.resources, "timeout_ms", DEFAULT_TIMEOUT_MS) > 0

\* task k of d breaks no rule of its own
TaskOK(d, k) == ~Blank(d.tasks[k].name) /\ ~Blank(d.tasks[k].agent) /\ ResourcesOK(d.tasks[k])

\* task k of d bears the name of an earlier task
Repeats(d, k) == \E j \in 1..(k - 1) : d.tasks[j].name = d.tasks[k].name

HeaderOK(d) == ~Blank(d.id) /\ ~Blank(d.tenant)

EdgeOK(d, k) == d.edges[k].source \in DocNames(d) /\ d.edges[k].target \in DocNames(d)

RiskOK(d) == d.policy.risk_level \in {"low", "medium", "high", "critical"}

\* d breaks no rule but, possibly, the one on cycles
OtherRulesOK(d) ==
  /\ HeaderOK(d)
  /\ d.tasks # << >>
  /\ \A k \in DOMAIN d.tasks : TaskOK(d, k) /\ ~Repeats(d, k)
  /\ \A k \in DOMAIN d.edges : EdgeOK(d, k)
  /\ RiskOK(d)

IsCycleError(e) == e.type = "ValidationError" /\ e.msg = "cycle detected in task dependency graph"

Produced == pc \in {"ready", "topo"}

\* validate_and_normalize has just returned the IRFlow; the projections, which
\* run after it, change neither the document nor the flow
Built == pc = "ready" /\ calls = 0

Failed == pc = "failed"

\* C4 as stated: a document whose edges form a cycle through two tasks or
\* more yields no IRFlow and fails with the cycle error, which names a node
\* on a cycle.
C4_CycleErrorAnyDocument ==
  /\ (Produced /\ HasLongCycle(DocArcs(doc))) => FALSE
  /\ (Failed /\ HasLongCycle(DocArcs(doc))) => IsCycleError(error) /\ OnCycle(DocArcs(doc), error.name)

\* C4 as amended: a document that breaks no other rule and whose edges form a
\* cycle through two tasks or more yields no IRFlow and fails with the cycle
\* error, which names a node on a cycle, wherever in the graph the cycle is.
C4_CycleError ==
  /\ (Built /\ OtherRulesOK(doc) /\ HasLongCycle(DocArcs(doc))) => FALSE
  /\ (Failed /\ OtherRulesOK(doc) /\ HasLongCycle(DocArcs(doc))) =>
       IsCycleError(error) /\ OnCycle(DocArcs(doc), error.name)

\* the cycle error names a node that the first declared task does not reach
C4_Witness ==
  /\ Failed
  /\ IsCycleError(error)
  /\ OtherRulesOK(doc)
  /\ HasLongCycle(DocArcs(doc))
  /\ doc.tasks[1].name # error.name
  /\ ~Path(DocArcs(doc), doc.tasks[1].name, error.name)

\* C5: for a document that breaks no other rule an IRFlow is produced only if
\* its edges are acyclic and validation fails only if they have a cycle (with
\* the cycle error); no IRFlow has a cycle.
C5_FlowIffAcyclic ==
  /\ (Built /\ OtherRulesOK(doc)) => ~HasCycle(DocArcs(doc))
  /\ (Failed /\ OtherRulesOK(doc)) => HasCycle(DocArcs(doc)) /\ IsCycleError(error)
  /\ ~Produced => flow = NoFlow
  /\ Built => ~HasCycle({<<flow.edges[k].source, flow.edges[k].target>> : k \in DOMAIN flow.edges})

\* an IRFlow of four tasks with a diamond (a task with two distinct sources,
\* both fed by a third task) and a repeated edge
C5_Witness ==
  /\ pc = "ready"
  /\ Len(flow.tasks) >= 4
  /\ \E i, j \in DOMAIN flow.edges : i # j /\ flow.edges[i].source = flow.edges[j].source /\ flow.edges[i].target = flow.edges[j].target
  /\ \E i, j, k, l \in DOMAIN flow.edges :
       /\ flow.edges[i].target = flow.edges[j].target
       /\ flow.edges[i].source # flow.edges[j].source
       /\ flow.edges[k].target = flow.edges[i].source
       /\ flow.edges[l].target = flow.edges[j].source
       /\ flow.edges[k].source = flow.edges[l].source

\* the error task k of d is rejected with when the tasks before it pass
TaskFault(d, k) ==
  LET t == d.tasks[k]
  IN IF Blank(t.name) THEN ValidationError("task name is required and must be non-empty", None, "name")
     ELSE IF Repeats(d, k) THEN ValidationError("duplicate task name", t.name, "name")
     ELSE IF Blank(t.agent) THEN ValidationError("agent is required", t.name, "agent")
     ELSE IF ~Coercible(t.resources, "priority") THEN ValidationError("must be an integer", t.name, "priority")
     ELSE IF ~Coercible(t.resources, "timeout_ms") THEN ValidationError("must be an integer", t.name, "timeout_ms")
     ELSE IF ~ResourcesOK(t) THEN ValidationError("timeout_ms must be > 0", t.name, "timeout_ms")
     ELSE NoError

EdgeFault(d, k) ==
  IF d.edges[k].source \notin DocNames(d)
  THEN ValidationError("edge source does not match any task name", d.edges[k].source, "source")
  ELSE IF d.edges[k].target \notin DocNames(d)
  THEN ValidationError("edge target does not match any task name", d.edges[k].target, "target")
  ELSE NoError

FaultyTasks(d) == {k \in DOMAIN d.tasks : TaskFault(d, k) # NoError}

FaultyEdges(d) == {k \in DOMAIN d.edges : EdgeFault(d, k) # NoError}

\* the rules of the list (1)..(7) that d breaks
BrokenRules(d) ==
  {r \in {"id", "tenant", "tasks", "task", "edge", "risk_level", "cycle"} :
     \/ r = "id" /\ Blank(d.id)
     \/ r = "tenant" /\ Blank(d.tenant)
     \/ r = "tasks" /\ d.tasks = << >>
     \/ r = "task" /\ FaultyTasks(d) # {}
     \/ r = "edge" /\ FaultyEdges(d) # {}
     \/ r = "risk_level" /\ ~RiskOK(d)
     \/ r = "cycle" /\ HasCycle(DocArcs(d))}

\* C6: validation fails with the error of the earliest broken rule in the
\* order id, tenant, task list, tasks in declaration order (name, duplicate,
\* agent, then the resources), edges in declaration order (source, target),
\* risk_level, cycle; it raises nothing else and produces an IRFlow only when
\* no rule is broken.
C6_FailFastOrder ==
  /\ ~Failed => error = NoError
  /\ Produced => BrokenRules(doc) = {}
  /\ Failed =>
       IF Blank(doc.id) THEN error = ValidationError("flow id is required and must be non-empty", None, "id")
       ELSE IF Blank(doc.tenant) THEN error = ValidationError("tenant is required and must be non-empty", None, "tenant")
       ELSE IF doc.tasks = << >> THEN error = ValidationError("at least one task is required", None, "tasks")
       ELSE IF FaultyTasks(doc) # {} THEN error = TaskFault(doc, Least(FaultyTasks(doc)))
       ELSE IF FaultyEdges(doc) # {} THEN error = EdgeFault(doc, Least(FaultyEdges(doc)))
       ELSE IF ~RiskOK(doc) THEN error = ValidationError("invalid risk_level", doc.policy.risk_level, "risk_level")
       ELSE IsCycleError(error) /\ OnCycle(DocArcs(doc), error.name)

\* a task with a repeated name and no agent fails as a duplicate, in a document
\* that breaks three rules or more
C6_Witness ==
  /\ Failed
  /\ error.msg = "duplicate task name"
  /\ \E k \in DOMAIN doc.tasks : Repeats(doc, k) /\ Blank(doc.tasks[k].agent) /\ k = Least(FaultyTasks(doc))
  /\ Cardinality(BrokenRules(doc)) >= 3

\* the first task of d that bears the name of an earlier one
FirstRepeat(d) == Least({k \in DOMAIN d.tasks : Repeats(d, k)})

HasRepeat(d) == \E k \in DOMAIN d.tasks : Repeats(d, k)

IsDuplicateError(e, n) == e.type = "ValidationError" /\ e.msg = "duplicate task name" /\ e.name = n

IsNoTaskError(e) == e.type = "ValidationError" /\ e.msg = "at least one task is required"

\* C8 as stated: a document with no task fails with the error "at least one
\* task is required".
C8_NoTaskAnyDocument ==
  doc.tasks = << >> =>
    /\ ~Produced
    /\ Failed => IsNoTaskError(error)

\* C8 as amended: a document with no task yields no IRFlow; when its id and
\* tenant are not empty it fails with the error "at least one task is
\* required".
C8_NoTask ==
  doc.tasks = << >> =>
    /\ pc \in {"validate", "failed"}
    /\ (Failed /\ HeaderOK(doc)) => IsNoTaskError(error)

\* the error for an empty task list, in a document with an edge and an invalid
\* risk_level
C8_Witness ==
  /\ Failed
  /\ IsNoTaskError(error)
  /\ doc.tasks = << >>
  /\ doc.edges # << >>
  /\ ~RiskOK(doc)

----------------------------------------------------------------------------
(* Properties of the projections.                                          *)

\* ir_to_monolith_tasks has just returned: the payload at place k of artifact
\* A is built from the task at place k of order
Emitted == pc = "ready" /\ caller = "monolith" /\ artifactA # NoArtifact

DerivedKeys == {"flow_id", "task_name", "agent"}

\* C9 as stated: whatever labels the tasks declare, every payload carries
\* flow_id, task_name and agent labels equal to the flow's id and the task's
\* name and agent, and the task's own labels.
C9_DerivedLabelsAlways ==
  Emitted =>
    \A k \in DOMAIN artifactA.value :
      LET t == TaskOf(flow, order[k])
          l == artifactA.value[k].meta.labels
      IN /\ l.flow_id = flow.id
         /\ l.task_name = t.name
         /\ l.agent = t.agent
         /\ \A key \in DOMAIN t.labels : key \in DOMAIN l /\ l[key] = t.labels[key]

\* C9 as amended: every payload carries the task's own labels unchanged, and
\* flow_id, task_name and agent labels that equal the flow's id and the task's
\* name and agent unless the task declares a label of that name itself, which
\* then replaces the derived one; the label set has no other key.
C9_Labels ==
  Emitted =>
    \A k \in DOMAIN artifactA.value :
      LET t == TaskOf(flow, order[k])
          l == artifactA.value[k].meta.labels
      IN /\ DOMAIN l = DerivedKeys \cup DOMAIN t.labels
         /\ \A key \in DOMAIN t.labels : l[key] = t.labels[key]
         /\ "flow_id" \notin DOMAIN t.labels => l.flow_id = flow.id
         /\ "task_name" \notin DOMAIN t.labels => l.task_name = t.name
         /\ "agent" \notin DOMAIN t.labels => l.agent = t.agent

\* payloads of a task with a label of its own beside the derived ones, and of
\* a task whose own task_name label replaces the derived one
C9_Witness ==
  /\ Emitted
  /\ \E k \in DOMAIN artifactA.value :
       /\ "team" \in DOMAIN artifactA.value[k].meta.labels
       /\ artifactA.value[k].meta.labels.flow_id = flow.id
  /\ \E k \in DOMAIN artifactA.value :
       artifactA.value[k].meta.labels.task_name # order[k]

\* C10: once both projections have returned for a flow, the payload at every
\* place of artifact A is the payload of the task named at the same place of
\* the tasks list of artifact B, and the two lists have the same length.
C10_SameTaskOrder ==
  (artifactA # NoArtifact /\ artifactB # NoArtifact) =>
    /\ Len(artifactA.value) = Len(artifactB.value.tasks)
    /\ \A k \in DOMAIN artifactA.value :
         /\ k \in DOMAIN artifactB.value.tasks
         /\ artifactA.value[k] = Payload(flow, TaskOf(flow, artifactB.value.tasks[k].name))

\* both projections have returned for a flow whose order differs from the
\* order of declaration
C10_Witness ==
  /\ pc = "ready"
  /\ artifactA # NoArtifact
  /\ artifactB # NoArtifact
  /\ Len(flow.tasks) >= 3
  /\ order # DictKeys(flow.tasks)

----------------------------------------------------------------------------
(* Determinism of the projections.                                         *)

\* C11: all calls made on one IRFlow get the same order from
\* _topological_order, and all calls of the same projection return the same
\* value, whichever calls were made before.
C11_Deterministic ==
  \A i, j \in DOMAIN returns :
    /\ returns[i].order = returns[j].order
    /\ returns[i].callee = returns[j].callee => returns[i].value = returns[j].value

\* the same projection has returned twice, and the other one after a first
\* call, on a flow whose order is not the order of declaration
C11_Witness ==
  /\ Len(returns) >= 2
  /\ returns[1].callee = returns[2].callee
  /\ Len(flow.tasks) >= 3
  /\ flow.edges # << >>
  /\ returns[2].order # DictKeys(flow.tasks)

----------------------------------------------------------------------------
(* The projections on an IRFlow that has a cycle.                          *)

FlowArcs(f) == {<<f.edges[k].source, f.edges[k].target>> : k \in DOMAIN f.edges}

\* one payload per task of f, in the order the tasks are declared
DeclaredPayloads(f) == [k \in DOMAIN f.tasks |-> Payload(f, f.tasks[k][2])]

\* C12: for an IRFlow whose edges contain a cycle ir_to_monolith_tasks
\* returns one payload for every task of the flow, in the order the tasks
\* are declared.
C12_DeclarationOrderOnCycle ==
  (pc = "ready" /\ artifactA # NoArtifact /\ HasCycle(FlowArcs(flow))) =>
    artifactA.value = DeclaredPayloads(flow)

----------------------------------------------------------------------------
(* Edges, policy and resources.                                            *)

\* d passes the checks of the flow id, the tenant and the tasks
TasksPass(d) ==
  /\ HeaderOK(d)
  /\ d.tasks # << >>
  /\ \A k \in DOMAIN d.tasks : TaskOK(d, k) /\ ~Repeats(d, k)

\* the edges of d with a source or a target that no task bears
UnknownEdges(d) == {k \in DOMAIN d.edges : d.edges[k].source \notin DocNames(d) \/ d.edges[k].target \notin DocNames(d)}

\* C13: a document that passes the id, tenant and task checks and has an edge
\* whose source or target is not a declared task yields no IRFlow, and fails
\* with a ValidationError that cites the unknown name of the first such edge:
\* its source if that is unknown, otherwise its target.
C13_UnknownEdge ==
  (TasksPass(doc) /\ UnknownEdges(doc) # {}) =>
    /\ pc \in {"validate", "tasks", "edges", "failed"}
    /\ flow = NoFlow
    /\ Failed =>
         LET e == doc.edges[Least(UnknownEdges(doc))]
         IN /\ error.type = "ValidationError"
            /\ error.name = (IF e.source \notin DocNames(doc) THEN e.source ELSE e.target)
            /\ error.name \notin DocNames(doc)

\* the error cites the source of a second edge whose source and target are
\* both unknown, after a first edge that is sound
C13_Witness ==
  /\ Failed
  /\ TasksPass(doc)
  /\ Len(doc.edges) >= 2
  /\ Least(UnknownEdges(doc)) = 2
  /\ doc.edges[2].source \notin DocNames(doc)
  /\ doc.edges[2].target \notin DocNames(doc)
  /\ doc.edges[2].source # doc.edges[2].target
  /\ error.name = doc.edges[2].source

CitesRiskLevel(e) == e.type = "ValidationError" /\ e.field = "risk_level"

\* C14: a document that passes the id, tenant, task and edge checks fails
\* with a ValidationError citing risk_level exactly when its risk_level is
\* not low, medium, high or critical; the policy of every IRFlow has one of
\* these four levels and the document's requires_approval and retention.
C14_RiskLevel ==
  /\ (Failed /\ TasksPass(doc) /\ UnknownEdges(doc) = {}) =>
       (CitesRiskLevel(error) <=> doc.policy.risk_level \notin {"low", "medium", "high", "critical"})
  /\ (Failed /\ CitesRiskLevel(error)) => error.name = doc.policy.risk_level
  /\ (Produced /\ TasksPass(doc) /\ UnknownEdges(doc) = {}) =>
       doc.policy.risk_level \in {"low", "medium", "high", "critical"}
  /\ Produced =>
       /\ flow.policy.risk_level \in {"low", "medium", "high", "critical"}
       /\ flow.policy.risk_level = doc.policy.risk_level
       /\ flow.policy.requires_approval = doc.policy.requires_approval
       /\ flow.policy.retention = doc.policy.retention

\* a risk_level in capitals is rejected, in a document whose edges form a cycle
C14_Witness ==
  /\ Failed
  /\ CitesRiskLevel(error)
  /\ TasksPass(doc)
  /\ UnknownEdges(doc) = {}
  /\ doc.policy.risk_level = "LOW"
  /\ HasCycle(DocArcs(doc))

\* the first field of the resources of t that the validator rejects
OffendingField(t) == IF ~Coercible(t.resources, "priority") THEN "priority" ELSE "timeout_ms"

\* the fields of the resources of t that break a rule
OffendingFields(t) ==
  {f \in {"priority", "timeout_ms"} :
     \/ ~Coercible(t.resources, f)
     \/ f = "timeout_ms" /\ Coerced(t.resources, "timeout_ms", DEFAULT_TIMEOUT_MS) <= 0}

\* C16, read with the fail-fast order of C6: every IRTask of an IRFlow has
\* timeout_ms > 0; a document with a task whose timeout_ms coerces to an
\* integer <= 0, or whose priority or timeout_ms does not coerce to an
\* integer, yields no IRFlow, and when its id and tenant are not empty, the
\* tasks declared before that task break no rule and the task has a name of
\* its own and an agent, it fails with a ValidationError naming that task and
\* its first offending field, priority before timeout_ms.
C16_ResourceFault ==
  /\ Produced => \A k \in DOMAIN flow.tasks : flow.tasks[k][2].timeout_ms > 0
  /\ \A k \in DOMAIN doc.tasks :
       OffendingFields(doc.tasks[k]) # {} =>
         /\ ~Produced
         /\ flow = NoFlow
         /\ (/\ Failed
             /\ HeaderOK(doc)
             /\ \A j \in 1..(k - 1) : TaskOK(doc, j) /\ ~Repeats(doc, j)
             /\ ~Blank(doc.tasks[k].name) /\ ~Repeats(doc, k) /\ ~Blank(doc.tasks[k].agent))
            => /\ error.type = "ValidationError"
               /\ error.name = doc.tasks[k].name
               /\ error.field = OffendingField(doc.tasks[k])

\* the resources of t hold an integer under key
HasInteger(t, key) == key \in DOMAIN t.resources /\ t.resources[key].t = "int"

\* C17: in an IRFlow a task whose resources have no priority key has
\* priority 0, a task whose resources have no timeout_ms key has timeout_ms
\* 10000, and a task whose resources hold an integer under the key carries
\* that integer.
C17_Defaults ==
  Produced =>
    \A k \in DOMAIN doc.tasks :
      LET t == doc.tasks[k]
          n == TaskOf(flow, t.name)
      IN /\ "priority" \notin DOMAIN t.resources => n.priority = 0
         /\ "timeout_ms" \notin DOMAIN t.resources => n.timeout_ms = 10000
         /\ HasInteger(t, "priority") => n.priority = t.resources["priority"].v
         /\ HasInteger(t, "timeout_ms") => n.timeout_ms = t.resources["timeout_ms"].v

\* an IRFlow with a task that sets priority 0 and its timeout_ms, a negative
\* priority in one case, and a task that sets neither or only its priority
C17_Witness ==
  /\ Produced
  /\ \E k \in DOMAIN doc.tasks :
       /\ HasInteger(doc.tasks[k], "priority")
       /\ HasInteger(doc.tasks[k], "timeout_ms")
       /\ doc.tasks[k].resources["priority"].v <= 0
  /\ \E k \in DOMAIN doc.tasks :
       /\ "timeout_ms" \notin DOMAIN doc.tasks[k].resources
       /\ TaskOf(flow, doc.tasks[k].name).timeout_ms = 10000

\* C18: the edges of an IRFlow are the edges of the document, as many and in
\* the same order, repeated edges kept, each with the same source, target
\* and condition; every source and target is a key of the tasks of the
\* IRFlow, which has exactly one entry per task of the document, under its
\* name.
C18_EdgesAndTasksKept ==
  Built =>
    /\ Len(flow.edges) = Len(doc.edges)
    /\ \A k \in DOMAIN doc.edges :
         /\ flow.edges[k].source = doc.edges[k].source
         /\ flow.edges[k].target = doc.edges[k].target
         /\ flow.edges[k].condition = doc.edges[k].condition
         /\ flow.edges[k].source \in FlowNames(flow)
         /\ flow.edges[k].target \in FlowNames(flow)
    /\ Len(flow.tasks) = Len(doc.tasks)
    /\ FlowNames(flow) = DocNames(doc)
    /\ \A k \in DOMAIN doc.tasks :
         /\ Cardinality({j \in DOMAIN flow.tasks : flow.tasks[j][1] = doc.tasks[k].name}) = 1
         /\ TaskOf(flow, doc.tasks[k].name).name = doc.tasks[k].name
         /\ TaskOf(flow, doc.tasks[k].name).agent = doc.tasks[k].agent

\* an IRFlow of four edges or more, two of them with the same source and
\* target and different conditions
C18_Witness ==
  /\ Built
  /\ Len(flow.edges) >= 4
  /\ \E i, j \in DOMAIN flow.edges :
       /\ i < j
       /\ flow.edges[i].source = flow.edges[j].source
       /\ flow.edges[i].target = flow.edges[j].target
       /\ flow.edges[i].condition # flow.edges[j].condition

\* C19: the edges list of the spec ir_to_waterfall_spec returns has one
\* record {from, to, condition} per edge of the IRFlow, with the source,
\* target and condition of the edge at the same place of flow.edges: as
\* many, in declaration order, repeated edges kept, whatever the order of
\* the tasks; a flow with no edge gives an empty list.
C19_WaterfallEdges ==
  artifactB # NoArtifact =>
    LET edges == artifactB.value.edges
    IN /\ Len(edges) = Len(flow.edges)
       /\ \A k \in DOMAIN flow.edges :
            /\ DOMAIN edges[k] = {"from", "to", "condition"}
            /\ edges[k].from = flow.edges[k].source
            /\ edges[k].to = flow.edges[k].target
            /\ edges[k].condition = flow.edges[k].condition
       /\ flow.edges = << >> => edges = << >>

\* a returned spec for a flow that declares the same edge twice, has three
\* edges or more and an order of tasks that is not the order of declaration
C19_Witness ==
  /\ artifactB # NoArtifact
  /\ Len(artifactB.value.edges) >= 3
  /\ \E i, j \in DOMAIN flow.edges : i < j /\ flow.edges[i] = flow.edges[j]
  /\ order # DictKeys(flow.tasks)

\* C20: ir_to_monolith_tasks returns one payload for every task of the flow
\* and no other; the payload built from task t has meta.owner equal to the
\* tenant of the flow, meta.priority to t.priority,
\* meta.resource_hints.timeout_ms to t.timeout_ms, agent to t.agent, input
\* to t.input and flow_id to the id of the flow.
C20_PayloadFields ==
  Emitted =>
    /\ Len(artifactA.value) = Len(flow.tasks)
    /\ \A n \in FlowNames(flow) : Cardinality(Positions(order, n)) = 1
    /\ \A k \in DOMAIN artifactA.value :
         LET t == TaskOf(flow, order[k])
             p == artifactA.value[k]
         IN /\ p.meta.owner = flow.tenant
            /\ p.meta.priority = t.priority
            /\ p.meta.resource_hints.timeout_ms = t.timeout_ms
            /\ DOMAIN p.meta.resource_hints = {"timeout_ms"}
            /\ p.agent = t.agent
            /\ p.input = t.input
            /\ p.flow_id = flow.id

\* payloads of a task with a priority, a timeout_ms and an input of its own
\* and of a task with the defaults, emitted against the order of declaration
C20_Witness ==
  /\ Emitted
  /\ order # DictKeys(flow.tasks)
  /\ \E k \in DOMAIN artifactA.value :
       /\ artifactA.value[k].meta.priority = 5
       /\ artifactA.value[k].meta.resource_hints.timeout_ms = 2000
       /\ artifactA.value[k].input # EmptyDict
  /\ \E k \in DOMAIN artifactA.value :
       /\ artifactA.value[k].meta.priority = 0
       /\ artifactA.value[k].meta.resource_hints.timeout_ms = 10000

----------------------------------------------------------------------------
(* parse_yaml followed by validate_and_normalize.                          *)

\* the YAML mapping r has no value under key, or null, or a string that is
\* empty after trimming
WrittenBlank(r, key) ==
  \/ key \notin DOMAIN r.v
  \/ r.v[key].t = "none"
  \/ r.v[key].t = "str" /\ Blank(r.v[key].v)

\* C15: a YAML document that parse_yaml accepts and in which id is absent,
\* null, empty or blank fails validation with the error of the flow id and
\* yields no IRFlow; likewise for tenant, with the error of the tenant, when
\* the id is sound; and every IRFlow has an id and a tenant that are not
\* empty after trimming and are the values written in the document.
C15_BlankIdOrTenantRejected ==
  raw.t = "map" =>
    /\ WrittenBlank(raw, "id") =>
         /\ pc # "ready"
         /\ flow = NoFlow
         /\ (Failed /\ error.type = "ValidationError") =>
              error = ValidationError("flow id is required and must be non-empty", None, "id")
    /\ (~WrittenBlank(raw, "id") /\ WrittenBlank(raw, "tenant")) =>
         /\ pc # "ready"
         /\ flow = NoFlow
         /\ (Failed /\ error.type = "ValidationError") =>
              error = ValidationError("tenant is required and must be non-empty", None, "tenant")
    /\ pc = "ready" =>
         /\ ~Blank(flow.id)
         /\ ~Blank(flow.tenant)
         /\ flow.id = PyStr(raw.v["id"])
         /\ flow.tenant = PyStr(raw.v["tenant"])

----------------------------------------------------------------------------
(* The stages and their inputs.                                            *)

\* C21: no step of validate_and_normalize, whether it goes on, returns or
\* raises, changes the FlowDocument; no step of _topological_order or of a
\* projection changes the IRFlow; and a value that a projection has returned
\* is the value every later call of it returns, whichever calls come between.
C21_NoSideEffects ==
  [][/\ doc' = doc
     /\ Produced => flow' = flow
     /\ artifactA # NoArtifact => artifactA' = artifactA
     /\ artifactB # NoArtifact => artifactB' = artifactB]_vars

\* both projections have returned, ir_to_monolith_tasks after
\* ir_to_waterfall_spec, for a document whose tasks are not declared in the
\* order computed and that carries input and labels
C21_Witness ==
  /\ pc = "ready"
  /\ Len(returns) = 2
  /\ returns[1].callee = "waterfall"
  /\ returns[2].callee = "monolith"
  /\ order # DictKeys(flow.tasks)
  /\ \E k \in DOMAIN doc.tasks : doc.tasks[k].input # EmptyDict /\ doc.tasks[k].labels # EmptyDict

----------------------------------------------------------------------------
(* parse_yaml alone.                                                       *)

\* parse_yaml has returned or raised
Parsed == pc # "parse"

\* the value of a top-level field of the mapping r, None when it is absent
Field(r, key) == Get(r.v, key, NoneVal)

\* the shape faults of a source: the root is not a mapping, tasks is absent,
\* null or not a sequence, edges is present, not empty and not a sequence, a
\* task entry or an edge entry is not a mapping
ShapeFault(r) ==
  \/ r.t # "map"
  \/ /\ r.t = "map"
     /\ \/ Field(r, "tasks").t # "list"
        \/ \E k \in DOMAIN Field(r, "tasks").v : Field(r, "tasks").v[k].t # "map"
        \/ Truthy(Field(r, "edges")) /\ Field(r, "edges").t # "list"
        \/ /\ Field(r, "edges").t = "list"
           /\ \E k \in DOMAIN Field(r, "edges").v : Field(r, "edges").v[k].t # "map"

\* C22: on a source with a shape fault parse_yaml raises ParseError and no
\* exception of another type, and returns no FlowDocument.
C22_ParseErrorOnShapeFault ==
  (Parsed /\ ShapeFault(raw)) =>
    /\ pc = "failed"
    /\ error.type = "ParseError"
    /\ doc = NoDocument

\* the field key of the mapping m is absent or a mapping
AbsentOrMap(m, key) == key \in DOMAIN m => m[key].t = "map"

\* a structurally well-formed source: a mapping with a sequence of tasks that
\* are mappings, edges absent or a sequence of mappings, a policy absent or a
\* mapping, a version absent or an integer, and task input, resources and
\* labels absent or mappings
WellFormed(r) ==
  /\ r.t = "map"
  /\ ~ShapeFault(r)
  /\ "version" \in DOMAIN r.v => r.v["version"].t = "int"
  /\ "edges" \in DOMAIN r.v => r.v["edges"].t = "list"
  /\ AbsentOrMap(r.v, "policy")
  /\ \A k \in DOMAIN Field(r, "tasks").v :
       LET t == Field(r, "tasks").v[k].v
       IN AbsentOrMap(t, "input") /\ AbsentOrMap(t, "resources") /\ AbsentOrMap(t, "labels")

\* C23: on a structurally well-formed source parse_yaml returns a
\* FlowDocument, whatever rules of the validator the source breaks, and in it
\* an absent version is 1, an absent id or tenant the empty string, absent
\* edges the empty list, an absent input, resources or labels of a task the
\* empty mapping, an absent condition of an edge None, and an absent policy
\* or policy field risk_level "low", requires_approval false, retention None.
C23_ParserDefaults ==
  (Parsed /\ WellFormed(raw)) =>
    /\ doc # NoDocument
    /\ error.type \in {"none", "ValidationError"}
    /\ "version" \notin DOMAIN raw.v => doc.version = 1
    /\ "id" \notin DOMAIN raw.v => doc.id = ""
    /\ "tenant" \notin DOMAIN raw.v => doc.tenant = ""
    /\ "edges" \notin DOMAIN raw.v => doc.edges = << >>
    /\ Len(doc.tasks) = Len(raw.v["tasks"].v)
    /\ \A k \in DOMAIN raw.v["tasks"].v :
         LET t == raw.v["tasks"].v[k].v
         IN /\ "input" \notin DOMAIN t => doc.tasks[k].input = EmptyDict
            /\ "resources" \notin DOMAIN t => doc.tasks[k].resources = EmptyDict
            /\ "labels" \notin DOMAIN t => doc.tasks[k].labels = EmptyDict
    /\ "edges" \in DOMAIN raw.v =>
         /\ Len(doc.edges) = Len(raw.v["edges"].v)
         /\ \A k \in DOMAIN raw.v["edges"].v :
              "condition" \notin DOMAIN raw.v["edges"].v[k].v => doc.edges[k].condition = None
    /\ LET rp == IF "policy" \in DOMAIN raw.v THEN raw.v["policy"].v ELSE EmptyDict
       IN /\ "risk_level" \notin DOMAIN rp => doc.policy.risk_level = "low"
          /\ "requires_approval" \notin DOMAIN rp => doc.policy.requires_approval = FALSE
          /\ "retention" \notin DOMAIN rp => doc.policy.retention = None
    /\ "policy" \notin DOMAIN raw.v => doc.policy = Policy("low", FALSE, None)

\* a FlowDocument with every default but those of the policy, parsed from a
\* source of two tasks of one name whose edge has no condition
C23_Witness ==
  /\ Parsed
  /\ WellFormed(raw)
  /\ DOMAIN raw.v = {"tasks", "edges"}
  /\ Len(doc.tasks) = 2
  /\ doc.tasks[1].name = doc.tasks[2].name
  /\ doc.tasks[1].input = EmptyDict
  /\ doc.edges # << >>
  /\ doc.edges[1].condition = None
  /\ doc.id = ""
  /\ doc.policy.risk_level = "low"

RecognisedPolicyKeys == {"risk_level", "requires_approval", "retention"}

\* the policy mapping of the source r, empty when the source has none
WrittenPolicy(r) == IF Field(r, "policy").t = "map" THEN Field(r, "policy").v ELSE EmptyDict

\* C24: in the FlowDocument parse_yaml returns, policy.extra has exactly the
\* keys of the policy mapping of the source other than risk_level,
\* requires_approval and retention, each with the value written.
C24_ExtraPreserved ==
  (Parsed /\ doc # NoDocument) =>
    /\ DOMAIN doc.policy.extra = DOMAIN WrittenPolicy(raw) \ RecognisedPolicyKeys
    /\ DOMAIN doc.policy.extra \cap RecognisedPolicyKeys = {}
    /\ \A k \in DOMAIN WrittenPolicy(raw) \ RecognisedPolicyKeys :
         /\ k \in DOMAIN doc.policy.extra
         /\ doc.policy.extra[k] = Plain(WrittenPolicy(raw)[k])

\* a policy written with the three recognised keys and one more, parsed
C24_Witness ==
  /\ Parsed
  /\ doc # NoDocument
  /\ RecognisedPolicyKeys \subseteq DOMAIN WrittenPolicy(raw)
  /\ DOMAIN doc.policy.extra = {"owner"}
  /\ doc.policy.extra["owner"] = "ops"

----------------------------------------------------------------------------
(* Termination.                                                            *)

\* C25: _assert_dag always comes to an end, by returning or by raising
\* ValidationError and nothing else; on every IRFlow that
\* validate_and_normalize returned, _topological_order and both projections
\* come to an end and return, and raise nothing.
C25_Termination ==
  /\ [][(pc = "dfs" /\ pc' = "failed") => error'.type = "ValidationError"]_vars
  /\ [](Produced => error = NoError)
  /\ (pc \in {"assert_dag", "dfs"}) ~> (pc \in {"ready", "returned", "failed"})
  /\ (pc = "topo") ~> (pc = "ready" /\ Len(returns) = calls)

----------------------------------------------------------------------------
(* The marks of the traversal of _assert_dag.                              *)

\* this step enters the body of dfs for a task: a frame is pushed
Expands == pc = "dfs" /\ Len(stack') = Len(stack) + 1

\* the task this step expands
Expanded == stack'[Len(stack')].node

\* C26: during the traversal no task is on the stack set and in the
\* processed set at once; a task is expanded only when it bears neither
\* mark, and is then on the stack set, which it leaves only for the processed
\* set, which no task ever leaves: so a processed task is skipped and every
\* task is expanded at most once. When _assert_dag returns the stack set is
\* empty and every task is processed.
C26_DfsMarks ==
  /\ [](visiting \cap visited = {})
  /\ [][Expands => (Expanded \notin visiting \cup visited /\ Expanded \in visiting')]_vars
  /\ [][(visiting \ visiting') \subseteq visited']_vars
  /\ [][visited \subseteq visited']_vars
  /\ [](Produced => (visiting = {} /\ visited = FlowNames(flow)))

\* _assert_dag has returned on a graph in which a task is reached over two
\* edges from different sources, the second time as a processed task
C26_Witness ==
  /\ Built
  /\ Len(flow.tasks) >= 4
  /\ visited = FlowNames(flow)
  /\ \E i, j \in DOMAIN flow.edges :
       /\ flow.edges[i].target = flow.edges[j].target
       /\ flow.edges[i].source # flow.edges[j].source

----------------------------------------------------------------------------
(* The counters and the queue of _topological_order.                       *)

\* _topological_order is running or has returned
Sorting == pc \in {"topo", "ready"} /\ calls > 0

NoRepeat(s) == \A i, j \in DOMAIN s : i # j => s[i] # s[j]

\* C27: while _topological_order runs on an IRFlow of the validator, and when
\* it has returned, no counter of in_degree is negative; the tasks that are
\* or were in the queue are exactly the tasks whose counter is 0; no task is
\* twice in the queue, twice in the result, or in both; this with edges
\* declared more than once too.
C27_CountersAndQueue ==
  Sorting =>
    /\ DOMAIN in_degree = FlowNames(flow)
    /\ \A n \in FlowNames(flow) : in_degree[n] >= 0
    /\ Range(order) \cup Range(queue) = {n \in FlowNames(flow) : in_degree[n] = 0}
    /\ NoRepeat(order \o queue)

\* between the two decrements for a task that is twice the target of the
\* same source: its counter is 1 and it is not yet in the queue
C27_Witness ==
  /\ pc = "topo"
  /\ nxts # << >>
  /\ in_degree[Head(nxts)] = 1
  /\ InDegree(flow)[Head(nxts)] >= 2
  /\ \E i, j \in DOMAIN flow.edges :
       /\ i < j
       /\ flow.edges[i].source = node /\ flow.edges[j].source = node
       /\ flow.edges[i].target = Head(nxts) /\ flow.edges[j].target = Head(nxts)
  /\ Len(nxts) = 1

----------------------------------------------------------------------------
(* What the order of _topological_order depends on.                        *)

\* how many edges of f go from u to v
EdgeCount(f, u, v) == Cardinality({k \in DOMAIN f.edges : f.edges[k].source = u /\ f.edges[k].target = v})

\* the multiset of the (source, target) pairs of the edges of f
EdgeBag(f) == [p \in FlowNames(f) \X FlowNames(f) |-> EdgeCount(f, p[1], p[2])]

RECURSIVE Copies(_, _)
\* x, n times
Copies(x, n) == IF n = 0 THEN << >> ELSE <<x>> \o Copies(x, n - 1)

RECURSIVE TargetsAmong(_, _, _)
\* the targets of the edges of the multiset B that leave u, among the names
\* of the ascending sequence s, in ascending order, each as often as B has
\* the edge
TargetsAmong(B, u, s) ==
  IF s = << >> THEN << >>
  ELSE Copies(Head(s), B[<<u, Head(s)>>]) \o TargetsAmong(B, u, Tail(s))

RECURSIVE Relaxed(_, _, _)
\* the counters and the queue after the targets of ts have lost one each
Relaxed(deg, q, ts) ==
  IF ts = << >> THEN <<deg, q>>
  ELSE LET d == deg[Head(ts)] - 1
       IN Relaxed([deg EXCEPT ![Head(ts)] = d], IF d = 0 THEN Append(q, Head(ts)) ELSE q, Tail(ts))

RECURSIVE Drained(_, _, _, _, _)
\* the tasks in the order in which they leave the queue
Drained(S, B, deg, q, out) ==
  IF q = << >> THEN out
  ELSE LET r == Relaxed(deg, Tail(q), TargetsAmong(B, Head(q), SortedSet(S)))
       IN Drained(S, B, r[1], r[2], Append(out, Head(q)))

\* a sequence of tasks made from the set S of names and the multiset B of
\* (source, target) pairs and from nothing else
OrderOf(S, B) ==
  LET deg == [n \in S |-> Cardinality({e \in S \X (1..Cardinality(DOMAIN B)) : e[2] <= B[<<e[1], n>>]})]
  IN Drained(S, B, deg, SortedSet({n \in S : deg[n] = 0}), << >>)

\* C28: the order _topological_order returns is a function of the set of
\* the task names and of the multiset of the (source, target) pairs of the
\* edges: flows that differ in the order in which tasks or edges are declared
\* get the same order.
C28_OrderOfSetAndMultiset ==
  Returned => order = OrderOf(FlowNames(flow), EdgeBag(flow))

\* a returned call on a flow whose tasks without incoming edge are declared
\* in descending order of their names
C28_Witness ==
  /\ Returned
  /\ Len(flow.tasks) >= 3
  /\ flow.edges # << >>
  /\ \E i, j \in DOMAIN flow.tasks :
       /\ i < j
       /\ StrLess(flow.tasks[j][1], flow.tasks[i][1])
       /\ InDegree(flow)[flow.tasks[i][1]] = 0
       /\ InDegree(flow)[flow.tasks[j][1]] = 0

----------------------------------------------------------------------------
(* The place of the tasks without incoming edge.                           *)

\* the tasks of f that no edge goes into
Roots(f) == {n \in FlowNames(f) : \A k \in DOMAIN f.edges : f.edges[k].target # n}

\* C29: in the order _topological_order returns every task without incoming
\* edge comes before every task with one, and the tasks without incoming
\* edge come in ascending order of their names.
C29_RootsFirstAscending ==
  Returned =>
    /\ Roots(flow) \subseteq Range(order)
    /\ \A i, j \in DOMAIN order :
         /\ (order[i] \in Roots(flow) /\ order[j] \notin Roots(flow)) => i < j
         /\ (order[i] \in Roots(flow) /\ order[j] \in Roots(flow) /\ i < j) => StrLess(order[i], order[j])

\* a returned order of two tasks without incoming edge, declared in
\* descending order, before a task with one whose name is smaller than theirs
C29_Witness ==
  /\ Returned
  /\ Cardinality(Roots(flow)) >= 2
  /\ \E n \in FlowNames(flow) \ Roots(flow) : \A r \in Roots(flow) : StrLess(n, r)
  /\ \E i, j \in DOMAIN flow.tasks :
       i < j /\ flow.tasks[i][1] \in Roots(flow) /\ flow.tasks[j][1] \in Roots(flow) /\ StrLess(flow.tasks[j][1], flow.tasks[i][1])

----------------------------------------------------------------------------
(* Two calls of validate_and_normalize on equal documents.                 *)

\* the second of two calls on equal documents is over
SecondOver == pc \in {"ready", "failed"} /\ returns # << >>

\* C30: two calls of validate_and_normalize on equal documents end alike:
\* both return, and equal IRFlows, or both raise, and the same exception
\* with the same message, the node named in the cycle error included.
C30_OutcomeOfDocumentAlone ==
  SecondOver =>
    LET first == returns[1].value
    IN /\ (pc = "ready") = (first.error = NoError)
       /\ flow = first.flow
       /\ error = first.error
====
